---------------------------- MODULE Spec2Model ----------------------------
(***************************************************************************)
(* A model of the Quismon Terraform provider: the reconciliation layer of   *)
(* its resources (check, alert rule, signup, notification channel, OTLP     *)
(* configuration), the API client they call and                            *)
(* the plan-time helpers.  Every resource is driven by the host (Terraform) *)
(* one operation at a time; each action below is one whole handler.         *)
(*                                                                         *)
(* One specification per resource type keeps the state spaces apart:        *)
(*   SpecCheck    quismon_check        Create / Read / Update / Delete      *)
(*   SpecAlert    quismon_alert_rule   Create / Read / Update / Delete and  *)
(*                                     the replacement the host performs    *)
(*   SpecSignup   quismon_signup       Create / Read / Update / Delete      *)
(*   SpecImport   alertRuleResource.ImportState on bounded identifiers      *)
(*   SpecPlanMod  expiresAfterSecondsModifier.PlanModifyInt64               *)
(*   SpecCheckImport  quismon_check imported, read, forgotten              *)
(*   SpecChannel  quismon_notification_channel and its remote API           *)
(*   SpecProvider quismonProvider.Configure                                 *)
(*   SpecStateFile  readAPIKeyFromState on bounded state files              *)
(*   SpecClient   Client.DoRequest on bounded keys and answers              *)
(*   SpecLookup   GetCheckByName / GetNotificationChannelByName             *)
(*   SpecRegion   ValidateRegion on catalog, legacy and other codes         *)
(*   SpecOtlp     quismon_organization_otlp and /v1/org/otlp                *)
(*   SpecConc     concurrent DoRequest calls on one Client                  *)
(*   SpecApply    Create and Update of the four resources that build a      *)
(*                request body, one resource per behaviour                  *)
(***************************************************************************)
EXTENDS Integers, Sequences, FiniteSets, TLC

VARIABLES
    chkState,    \* tracked state of the quismon_check instance (Absent or its attributes)
    chkRemote,   \* the check as the remote API stores it (Absent or a Check)
    chkCfg,      \* the configuration of the check's last successful apply
    chkOp,       \* the last operation on the check: name, outcome, plan, calls
    arState,     \* tracked state of the quismon_alert_rule instance
    arRemote,    \* the alert rule as the remote API stores it
    arOp,        \* the last operation on the alert rule
    arPending,   \* the plan awaiting Create in the middle of a replacement
    suState,     \* tracked state of the quismon_signup instance
    suRemote,    \* organizations that exist remotely
    suOp,        \* the last operation on the signup
    impId,       \* the identifier handed to alertRuleResource.ImportState
    impResp,     \* its response: attributes set and diagnostics
    pmReq,       \* the request handed to PlanModifyInt64: plan and state value
    pmResp,      \* its response: the plan value
    pvReq,       \* what quismonProvider.Configure finds: configuration, environment, files
    pvResp,      \* its response: diagnostics and the client it built
    sfReq,       \* the files readAPIKeyFromState finds in the working directory
    sfResp,      \* what it returns: the key and the warning
    clReq,       \* a call of Client.DoRequest: the client's key, the call, the server's answer
    clResp,      \* the HTTP requests it sent and what it returned
    ncState,     \* tracked state of the quismon_notification_channel instance
    ncRemote,    \* the channel as the remote API stores it
    ncOp,        \* the last operation on the channel
    lkReq,       \* a lookup by name: the kind, the name, the server's answer to the listing
    lkResp,      \* what the lookup returned
    rgReq,       \* the string handed to ValidateRegion
    rgResp,      \* its error, or Nil
    otState,     \* tracked state of the quismon_organization_otlp instance
    otRemote,    \* the organization's OTLP configuration as the remote API stores it
    otOp,        \* the last operation on the OTLP configuration
    ccClient,    \* the Client shared by the operations running concurrently
    ccProc       \* each concurrent operation: its position, call, request and result

checkVars  == <<chkState, chkRemote, chkCfg, chkOp>>
alertVars  == <<arState, arRemote, arOp, arPending>>
signupVars == <<suState, suRemote, suOp>>
importVars == <<impId, impResp>>
planVars   == <<pmReq, pmResp>>
providerVars == <<pvReq, pvResp>>
stateFileVars == <<sfReq, sfResp>>
clientVars == <<clReq, clResp>>
channelVars == <<ncState, ncRemote, ncOp>>
lookupVars == <<lkReq, lkResp>>
regionVars == <<rgReq, rgResp>>
otlpVars == <<otState, otRemote, otOp>>
concVars == <<ccClient, ccProc>>
restVars == <<lookupVars, regionVars, otlpVars, concVars>>
pureVars == <<importVars, planVars, providerVars, stateFileVars, clientVars>>
vars == <<checkVars, alertVars, signupVars, pureVars, channelVars, restVars>>

-----------------------------------------------------------------------------
(* Values of the plugin framework: every attribute is null, unknown or      *)
(* known.  The Value* accessors return the zero value unless known.         *)

NullV == [state |-> "null"]
UnknownV == [state |-> "unknown"]
Known(v) == [state |-> "known", value |-> v]

IsNull(x) == x.state = "null"
IsKnown(x) == x.state = "known"

ValueString(x) == IF IsKnown(x) THEN x.value ELSE ""
ValueBool(x) == IF IsKnown(x) THEN x.value ELSE FALSE
ValueInt64(x) == IF IsKnown(x) THEN x.value ELSE 0

\* types.Map / types.List Equal: same state and, when known, same elements
\* (a list compares element by element, in order).
AttrEqual(a, b) == a = b

\* plan.X.Elements(): the elements of a map, none when null or unknown.
Elements(m) == IF IsKnown(m) THEN m.value ELSE <<>>

\* The loop that copies a map attribute into map[string]interface{}:
\* every element is a types.String and contributes its ValueString().
CoerceMap(m) ==
    [nil |-> FALSE,
     m |-> [k \in DOMAIN Elements(m) |-> ValueString(Elements(m)[k])]]

\* A nil Go map / slice (marshals as JSON null).
NilMap == [nil |-> TRUE]

\* An instance that does not exist (in tracked state or remotely).
Absent == [absent |-> TRUE]

\* The host cannot store unknown values: what the provider leaves unknown in
\* the state it returns is recorded as null (and reported as an error).
UnknownAsNull(s) ==
    [a \in DOMAIN s |-> IF s[a] = UnknownV THEN NullV ELSE s[a]]
HasUnknown(s) == \E a \in DOMAIN s : s[a] = UnknownV

-----------------------------------------------------------------------------
(* JSON texts.  A text is a sequence of tokens: punctuation <<"p", c>>, a   *)
(* string literal <<"s", chars>> or a literal name <<"l", name>>.  The      *)
(* texts of the model are flat: a member's value is a string literal.       *)

Open == <<"p", "{">>
Close == <<"p", "}">>
Colon == <<"p", ":">>
Comma == <<"p", ",">>
OpenArr == <<"p", "[">>
CloseArr == <<"p", "]">>
Str(s) == <<"s", s>>
Lit(n) == <<"l", n>>

EmptyText == <<>>
EmptyMap == [k \in {} |-> ""]

\* The value of a string attribute holding a JSON text ("" when not known).
ValueText(x) == IF IsKnown(x) THEN x.value ELSE EmptyText

MapPut(m, k, v) == [x \in DOMAIN m \cup {k} |-> IF x = k THEN v ELSE m[x]]

JsonOk(m) == [err |-> "none", out |-> [nil |-> FALSE, m |-> m]]
JsonErr(kind) == [err |-> kind, out |-> NilMap]

\* The members of an object from token i on: key ":" string, then "," or "}".
\* A repeated key keeps its last value, as encoding/json does.
RECURSIVE ParseMembers(_, _, _)
ParseMembers(toks, i, acc) ==
    IF i + 3 > Len(toks) THEN JsonErr("syntax")
    ELSE IF toks[i][1] # "s" \/ toks[i + 1] # Colon \/ toks[i + 2][1] # "s"
    THEN JsonErr("syntax")
    ELSE LET acc2 == MapPut(acc, toks[i][2], toks[i + 2][2])
         IN  IF toks[i + 3] = Close
             THEN (IF i + 3 = Len(toks) THEN JsonOk(acc2) ELSE JsonErr("syntax"))
             ELSE IF toks[i + 3] = Comma
             THEN ParseMembers(toks, i + 4, acc2)
             ELSE JsonErr("syntax")

\* An array of string literals from token i on (valid JSON, but no object).
RECURSIVE ValidArray(_, _)
ValidArray(toks, i) ==
    IF i > Len(toks) THEN FALSE
    ELSE IF toks[i] = CloseArr THEN i = Len(toks)
    ELSE IF toks[i][1] # "s" THEN FALSE
    ELSE IF i + 1 > Len(toks) THEN FALSE
    ELSE IF toks[i + 1] = CloseArr THEN i + 1 = Len(toks)
    ELSE IF toks[i + 1] = Comma
    THEN i + 2 <= Len(toks) /\ toks[i + 2][1] = "s" /\ ValidArray(toks, i + 2)
    ELSE FALSE

\* json.Unmarshal(text, &configMap) with configMap a nil map[string]interface{}:
\* an object decodes to a map, the literal null leaves the map nil, any other
\* JSON value is a type error and anything else a syntax error.
JsonUnmarshalMap(toks) ==
    IF Len(toks) = 0 THEN JsonErr("syntax")
    ELSE IF toks = <<Lit("null")>> THEN [err |-> "none", out |-> NilMap]
    ELSE IF toks[1] = Open
    THEN (IF Len(toks) >= 2 /\ toks[2] = Close
          THEN (IF Len(toks) = 2 THEN JsonOk(EmptyMap) ELSE JsonErr("syntax"))
          ELSE ParseMembers(toks, 2, EmptyMap))
    ELSE IF toks[1] = OpenArr
    THEN (IF ValidArray(toks, 2) THEN JsonErr("type") ELSE JsonErr("syntax"))
    ELSE IF Len(toks) = 1
            /\ (toks[1][1] = "s" \/ toks[1] \in {Lit("true"), Lit("false")})
    THEN JsonErr("type")
    ELSE JsonErr("syntax")

-----------------------------------------------------------------------------
(* The API client.  A Go error is a record of its dynamic type and of the   *)
(* format that built it; Nil is the nil error, pointer, map or slice.       *)

Nil == [nil |-> TRUE]
Ptr(v) == [nil |-> FALSE, v |-> v]

\* The {data, error, meta} envelope of a response body: `valid` says whether
\* the body parses as an envelope, `text` is the body as sent.
Envelope(data, error, text) ==
    [valid |-> TRUE, data |-> data, error |-> error, text |-> text]
RawBody(text) == [valid |-> FALSE, data |-> Nil, error |-> Nil, text |-> text]

\* What the transport and the server may do to a call instead of serving it.
Served == [kind |-> "served"]
TransportFailure == [kind |-> "transport"]
Rejected(status, body) == [kind |-> "status", status |-> status, body |-> body]
Faults ==
    {Served,
     TransportFailure,
     Rejected(500, Envelope(Nil, Ptr("internal error"), "{\"error\":\"internal error\"}"))}

\* An HTTP response, or the failure of the transport.
Response(status, body) == [kind |-> "response", status |-> status, body |-> body]
NotFoundBody == Envelope(Nil, Ptr("not found"), "{\"error\":\"not found\"}")
Outcome(fault, served) ==
    IF fault.kind = "served" THEN served
    ELSE IF fault.kind = "transport" THEN TransportFailure
    ELSE Response(fault.status, fault.body)

\* fmt.Errorf("API error (%d): %s", status, message)
APIErrorf(status, message) ==
    [type |-> "*errors.errorString", format |-> "API error (%d): %s",
     status |-> status, message |-> message]
\* fmt.Errorf("failed to execute request: %w", err)
TransportErrorf ==
    [type |-> "*fmt.wrapError", format |-> "failed to execute request: %w"]

\* Client.DoRequest that always reports the raw body text of a failed
\* response, whatever the envelope says.
DoRequestRawMessage(http) ==
    IF http.kind = "transport" THEN [data |-> Nil, err |-> TransportErrorf]
    ELSE IF http.status >= 400
    THEN [data |-> Nil, err |-> APIErrorf(http.status, http.body.text)]
    ELSE [data |-> Ptr(http.body), err |-> Nil]

\* Client.DoRequest from the point where HTTPClient.Do returns: the raw body
\* below status 400, an error built from the envelope's error string or from
\* the raw body text at 400 and above.
DoRequest(http) ==
    IF http.kind = "transport" THEN [data |-> Nil, err |-> TransportErrorf]
    ELSE IF http.status >= 400
    THEN (IF http.body.valid /\ ~http.body.error.nil
          THEN [data |-> Nil, err |-> APIErrorf(http.status, http.body.error.v)]
          ELSE [data |-> Nil, err |-> APIErrorf(http.status, http.body.text)])
    ELSE [data |-> Ptr(http.body), err |-> Nil]

\* json.Unmarshal(payload, &v) for a struct v: a key of the payload sets the
\* field of that name, and a field the payload lacks keeps its value.
JsonUnmarshalInto(payload, v) ==
    [f \in DOMAIN v |-> IF f \in DOMAIN payload THEN payload[f] ELSE v[f]]

\* UnmarshalAPIResponse(data, &v) with v holding `zero`: an error when the
\* body is no envelope or carries an error, the decoded data otherwise, and
\* the zero value when the envelope has no data.
UnmarshalAPIResponse(body, zero) ==
    IF ~body.valid
    THEN [v |-> zero,
          err |-> [type |-> "*fmt.wrapError",
                   format |-> "failed to unmarshal API response: %w"]]
    ELSE IF ~body.error.nil
    THEN [v |-> zero,
          err |-> [type |-> "*errors.errorString", format |-> "API error: %s",
                   message |-> body.error.v]]
    ELSE IF ~body.data.nil
    THEN [v |-> JsonUnmarshalInto(body.data.v, zero), err |-> Nil]
    ELSE [v |-> zero, err |-> Nil]

\* A successful envelope around a payload.
DataEnvelope(payload) == Envelope(Ptr(payload), Nil, "{\"data\":{}}")

\* A call as the server sees it.
Call(method, path, body) == [method |-> method, path |-> path, body |-> body]

-----------------------------------------------------------------------------
(* quismon_check: the declared configurations of the model.                 *)

RegionLists ==
    {NullV, Known(<<>>), Known(<<"na-east-ewr", "us-east-1">>)}
ConfigMaps ==
    {NullV, Known(EmptyMap), Known([url |-> Known("https://m")])}
JsonObject ==
    <<Open, Str("url"), Colon, Str("https://x"), Comma,
      Str("method"), Colon, Str("GET"), Close>>
JsonTruncated == <<Open, Str("url"), Colon, Str("https://x")>>
JsonArray == <<OpenArr, Str("https://x"), CloseArr>>
ConfigTexts ==
    {NullV, Known(EmptyText), Known(JsonObject), Known(<<Lit("null")>>),
     Known(JsonTruncated), Known(JsonArray)}

\* What the user declares (an omitted optional attribute is null): the
\* attributes every check has ...
CheckBasics ==
    {[name |-> Known("api"), type |-> Known("https"),
      interval_seconds |-> Known(60), regions |-> NullV, enabled |-> NullV],
     [name |-> Known("web"), type |-> Known("multistep"),
      interval_seconds |-> Known(300),
      regions |-> Known(<<"na-east-ewr", "us-east-1">>), enabled |-> Known(FALSE)],
     [name |-> Known("api"), type |-> Known("https"),
      interval_seconds |-> Known(300), regions |-> Known(<<>>),
      enabled |-> Known(TRUE)]}
\* ... and the two attributes that carry its configuration.
CheckSources == [config : ConfigMaps, config_json : ConfigTexts]
BaseBasics == CHOOSE b \in CheckBasics : IsNull(b.regions)
BaseSource == [config |-> Known([url |-> Known("https://m")]), config_json |-> NullV]

\* The configurations of the model: every source with the base attributes,
\* and every set of attributes with the base source.
CheckConfigs ==
    {BaseBasics @@ src : src \in CheckSources}
    \cup {b @@ BaseSource : b \in CheckBasics}

\* The schema's defaults and plan modifiers: an omitted attribute with a
\* default takes it, id keeps its state value (UseStateForUnknown), and the
\* other computed attributes are unknown until the apply.
DefaultRegions == <<"us-east-1">>
WithDefault(v, d) == IF IsNull(v) THEN Known(d) ELSE v
UseStateForUnknown(prior, attr) ==
    IF prior = Absent \/ IsNull(prior[attr]) THEN UnknownV ELSE prior[attr]
PlanCheck(cfg, prior) ==
    [id |-> UseStateForUnknown(prior, "id"),
     org_id |-> UnknownV,
     name |-> cfg.name,
     type |-> cfg.type,
     config |-> cfg.config,
     config_json |-> cfg.config_json,
     interval_seconds |-> cfg.interval_seconds,
     regions |-> WithDefault(cfg.regions, DefaultRegions),
     enabled |-> WithDefault(cfg.enabled, TRUE),
     simultaneous_regions |-> Known(FALSE),
     recheck_on_failure |-> Known(FALSE),
     iac_locked |-> Known(FALSE),
     health_status |-> UnknownV,
     last_checked |-> UnknownV,
     created_at |-> UnknownV,
     updated_at |-> UnknownV]

\* The host calls Update only for a plan that differs from the prior state in
\* an attribute the plan settles.
PlanDiffers(plan, prior) ==
    \E a \in DOMAIN plan : plan[a] # UnknownV /\ plan[a] # prior[a]

-----------------------------------------------------------------------------
(* quismon_check: the handlers' local steps.                                *)

\* Create's choice of the configuration source, with the two sources tried in
\* the other order (the map first).
ResolveConfigCreateMapFirst(plan) ==
    IF ~IsNull(plan.config)
    THEN [diag |-> "", configMap |-> CoerceMap(plan.config)]
    ELSE IF ~IsNull(plan.config_json) /\ ValueText(plan.config_json) # EmptyText
    THEN LET r == JsonUnmarshalMap(ValueText(plan.config_json))
         IN  IF r.err # "none"
             THEN [diag |-> "Error Parsing config_json", configMap |-> NilMap]
             ELSE [diag |-> "", configMap |-> r.out]
    ELSE [diag |-> "Missing Configuration", configMap |-> NilMap]

\* Create's choice of the configuration source, without its checks: a text
\* that does not parse and a missing source both leave the map nil.
ResolveConfigCreateUnchecked(plan) ==
    IF ~IsNull(plan.config_json) /\ ValueText(plan.config_json) # EmptyText
    THEN [diag |-> "", configMap |-> JsonUnmarshalMap(ValueText(plan.config_json)).out]
    ELSE IF ~IsNull(plan.config)
    THEN [diag |-> "", configMap |-> CoerceMap(plan.config)]
    ELSE [diag |-> "", configMap |-> NilMap]

\* Create's choice of the configuration source.
ResolveConfigCreate(plan) ==
    IF ~IsNull(plan.config_json) /\ ValueText(plan.config_json) # EmptyText
    THEN LET r == JsonUnmarshalMap(ValueText(plan.config_json))
         IN  IF r.err # "none"
             THEN [diag |-> "Error Parsing config_json", configMap |-> NilMap]
             ELSE [diag |-> "", configMap |-> r.out]
    ELSE IF ~IsNull(plan.config)
    THEN [diag |-> "", configMap |-> CoerceMap(plan.config)]
    ELSE [diag |-> "Missing Configuration", configMap |-> NilMap]

\* Update's choice of the configuration source: no branch for neither.
ResolveConfigUpdate(plan) ==
    IF ~IsNull(plan.config_json) /\ ValueText(plan.config_json) # EmptyText
    THEN LET r == JsonUnmarshalMap(ValueText(plan.config_json))
         IN  IF r.err # "none"
             THEN [diag |-> "Error Parsing config_json", configMap |-> NilMap]
             ELSE [diag |-> "", configMap |-> r.out]
    ELSE IF ~IsNull(plan.config)
    THEN [diag |-> "", configMap |-> CoerceMap(plan.config)]
    ELSE [diag |-> "", configMap |-> NilMap]

\* A null element of a list (the known elements are written as strings).
NullElem == "(null)"
HasNullElem(list) ==
    IsKnown(list) /\ \E i \in 1..Len(list.value) : list.value[i] = NullElem

\* An ElementsAs that leaves out what it cannot convert and reports no error.
ElementsAsSkipping(list) ==
    IF IsKnown(list)
    THEN [err |-> FALSE, v |-> SelectSeq(list.value, LAMBDA x : x # NullElem)]
    ELSE [err |-> FALSE, v |-> <<>>]

\* plan.Regions.ElementsAs(ctx, &regions, false) into []string: the elements
\* of a known list without null elements, nil for a null list, an error for
\* an unknown list and for a null element.
ElementsAs(list) ==
    IF IsKnown(list)
    THEN (IF HasNullElem(list) THEN [err |-> TRUE, v |-> <<>>]
          ELSE [err |-> FALSE, v |-> list.value])
    ELSE IF IsNull(list) THEN [err |-> FALSE, v |-> <<>>]
    ELSE [err |-> TRUE, v |-> <<>>]

\* ValueBoolPointer: nil for null, else a pointer to the ValueBool.
ValueBoolPointer(x) == IF IsNull(x) THEN Nil ELSE Ptr(ValueBool(x))

\* One field of a marshalled struct: present unless omitempty drops it.
Field(key, keep, v) == IF keep THEN [k \in {key} |-> v] ELSE EmptyMap

\* client.CreateCheckRequest with Enabled left at its zero value.
CreateCheckRequestNoEnabled(plan, configMap, regions) ==
    [name |-> ValueString(plan.name),
     type |-> ValueString(plan.type),
     config |-> configMap,
     interval_seconds |-> ValueInt64(plan.interval_seconds),
     enabled |-> FALSE]
    @@ Field("regions", Len(regions) > 0, regions)
    @@ Field("simultaneous_regions",
             ~ValueBoolPointer(plan.simultaneous_regions).nil,
             ValueBool(plan.simultaneous_regions))
    @@ Field("recheck_on_failure",
             ~ValueBoolPointer(plan.recheck_on_failure).nil,
             ValueBool(plan.recheck_on_failure))

\* client.CreateCheckRequest as Create fills it, marshalled: regions is
\* omitted when empty, a nil pointer is omitted, Inverted and
\* ExpiresAfterSeconds are never set.
CreateCheckRequest(plan, configMap, regions) ==
    [name |-> ValueString(plan.name),
     type |-> ValueString(plan.type),
     config |-> configMap,
     interval_seconds |-> ValueInt64(plan.interval_seconds),
     enabled |-> ValueBool(plan.enabled)]
    @@ Field("regions", Len(regions) > 0, regions)
    @@ Field("simultaneous_regions",
             ~ValueBoolPointer(plan.simultaneous_regions).nil,
             ValueBool(plan.simultaneous_regions))
    @@ Field("recheck_on_failure",
             ~ValueBoolPointer(plan.recheck_on_failure).nil,
             ValueBool(plan.recheck_on_failure))

\* client.UpdateCheckRequest as Update fills it, marshalled: the eight
\* pointers Update sets are non-nil, so their fields are always present.
UpdateCheckRequest(plan, configMap, regions) ==
    [name |-> ValueString(plan.name),
     type |-> ValueString(plan.type),
     config |-> configMap,
     interval_seconds |-> ValueInt64(plan.interval_seconds),
     regions |-> regions,
     enabled |-> ValueBool(plan.enabled),
     simultaneous_regions |-> ValueBool(plan.simultaneous_regions),
     recheck_on_failure |-> ValueBool(plan.recheck_on_failure)]

\* client.Check before decoding (`var check Check`).
ZeroCheck ==
    [id |-> "", org_id |-> "", name |-> "", type |-> "", config |-> NilMap,
     interval_seconds |-> 0, regions |-> <<>>, enabled |-> FALSE,
     simultaneous_regions |-> FALSE, recheck_on_failure |-> FALSE,
     health_status |-> "", last_checked |-> Nil,
     created_at |-> "", updated_at |-> "", config_hash |-> ""]

\* types.StringValue(*p) for a set pointer, types.StringNull() for nil.
StringOrNull(p) == IF p.nil THEN NullV ELSE Known(p.v)

\* "Map response to state" of Create.
CreateState(plan, check) ==
    [plan EXCEPT
        !.id = Known(check.id),
        !.org_id = Known(check.org_id),
        !.simultaneous_regions = Known(check.simultaneous_regions),
        !.recheck_on_failure = Known(check.recheck_on_failure),
        !.health_status = Known(check.health_status),
        !.last_checked = StringOrNull(check.last_checked),
        !.created_at = Known(check.created_at),
        !.updated_at = Known(check.updated_at)]

\* "Map response to state" of Read.
ReadState(state, check) ==
    [state EXCEPT
        !.org_id = Known(check.org_id),
        !.name = Known(check.name),
        !.type = Known(check.type),
        !.interval_seconds = Known(check.interval_seconds),
        !.enabled = Known(check.enabled),
        !.simultaneous_regions = Known(check.simultaneous_regions),
        !.recheck_on_failure = Known(check.recheck_on_failure),
        !.health_status = Known(check.health_status),
        !.last_checked = StringOrNull(check.last_checked),
        !.created_at = Known(check.created_at),
        !.updated_at = Known(check.updated_at)]

\* "Map response to state" of Update.
UpdateState(plan, check) ==
    [plan EXCEPT
        !.org_id = Known(check.org_id),
        !.simultaneous_regions = Known(check.simultaneous_regions),
        !.recheck_on_failure = Known(check.recheck_on_failure),
        !.health_status = Known(check.health_status),
        !.last_checked = StringOrNull(check.last_checked),
        !.created_at = Known(check.created_at),
        !.updated_at = Known(check.updated_at)]

-----------------------------------------------------------------------------
(* The remote API for checks: it stores what a request carries, fills in    *)
(* what the request omits and reports what it stored.                       *)

\* What the service knows of a check before and after it has probed it.
NotProbed == [health |-> "unknown", last |-> Nil]
ServerFacts ==
    {NotProbed, [health |-> "healthy", last |-> Ptr("2026-02-17T00:00:00Z")]}

\* Check.ConfigHash as the API fills it: a hash of the config it stores,
\* empty when there is none.
ConfigHash(config) ==
    IF config.nil \/ DOMAIN config.m = {} THEN "" ELSE "sha256-1"

StoreCheck(body) ==
    [id |-> "chk-1",
     org_id |-> "org-1",
     name |-> body.name,
     type |-> body.type,
     config |-> body.config,
     interval_seconds |-> body.interval_seconds,
     regions |-> IF "regions" \in DOMAIN body THEN body.regions ELSE DefaultRegions,
     enabled |-> body.enabled,
     simultaneous_regions |->
        IF "simultaneous_regions" \in DOMAIN body
        THEN body.simultaneous_regions ELSE FALSE,
     recheck_on_failure |->
        IF "recheck_on_failure" \in DOMAIN body
        THEN body.recheck_on_failure ELSE FALSE,
     health_status |-> NotProbed.health,
     last_checked |-> NotProbed.last,
     created_at |-> "t-created",
     updated_at |-> "t-created",
     config_hash |-> ConfigHash(body.config)]

PatchCheck(stored, body) ==
    [f \in DOMAIN stored |->
        IF f \in DOMAIN body THEN body[f]
        ELSE IF f = "updated_at" THEN "t-updated"
        ELSE IF f = "config_hash"
        THEN ConfigHash(IF "config" \in DOMAIN body THEN body.config
                        ELSE stored.config)
        ELSE stored[f]]

\* The data payload of a stored check: last_checked is left out when unset,
\* config_hash when empty.
CheckPayload(stored) ==
    [f \in ((DOMAIN stored)
             \ (IF stored.last_checked.nil THEN {"last_checked"} ELSE {}))
            \ (IF stored.config_hash = "" THEN {"config_hash"} ELSE {}) |->
        stored[f]]

CheckPath == <<"v1", "checks">>
CheckPathOf(id) == <<"v1", "checks", id>>

\* The server's answer to a call, and what it stores afterwards.
ServeCheck(call, remote) ==
    IF call.method = "POST"
    THEN LET stored == StoreCheck(call.body)
         IN  [http |-> Response(201, DataEnvelope(CheckPayload(stored))),
              remote |-> stored]
    ELSE IF remote = Absent \/ call.path # CheckPathOf(remote.id)
    THEN [http |-> Response(404, NotFoundBody), remote |-> remote]
    ELSE IF call.method = "GET"
    THEN [http |-> Response(200, DataEnvelope(CheckPayload(remote))),
          remote |-> remote]
    ELSE IF call.method = "PUT"
    THEN LET stored == PatchCheck(remote, call.body)
         IN  [http |-> Response(200, DataEnvelope(CheckPayload(stored))),
              remote |-> stored]
    ELSE [http |-> Response(200, Envelope(Nil, Nil, "{}")), remote |-> Absent]

\* One round trip: the call is served unless the fault strikes first.
RoundTripCheck(call, fault, remote) ==
    IF fault = Served THEN ServeCheck(call, remote)
    ELSE [http |-> Outcome(fault, Absent), remote |-> remote]

\* client.GetCheck / CreateCheck / UpdateCheck on the response received.
ClientCheck(http) ==
    LET r == DoRequest(http)
    IN  IF r.err # Nil THEN [v |-> ZeroCheck, err |-> r.err]
        ELSE UnmarshalAPIResponse(r.data.v, ZeroCheck)

\* client.DeleteCheck on the response received.
ClientDelete(http) == DoRequest(http).err

-----------------------------------------------------------------------------
(* quismon_check: the operations.                                           *)

\* The record of an operation: its diagnostics, the calls it made, the plan it
\* was given, the response and the error of its last call, and the operation
\* it came straight after.
NoOp == [name |-> "none", after |-> "none", diags |-> <<>>, calls |-> <<>>,
         plan |-> Absent, http |-> Absent, err |-> Nil]
Op(name, after, diags, calls, plan, http, err) ==
    [name |-> name, after |-> after, diags |-> diags, calls |-> calls,
     plan |-> plan, http |-> http, err |-> err]

\* What the host records of the state a handler returns.
HostStore(state) == UnknownAsNull(state)
HostDiags(diags, state) ==
    IF HasUnknown(state)
    THEN Append(diags, "Provider returned invalid result object after apply")
    ELSE diags

\* In the actions below a handler's intermediate values are bound one by one
\* (\E x \in {e}), in the order the handler computes them.

\* checkResource.Create
CheckCreate(cfg, fault) ==
    /\ chkState = Absent
    /\ \E plan \in {PlanCheck(cfg, Absent)} :
       \E res \in {ResolveConfigCreate(plan)} :
       \E regions \in {ElementsAs(plan.regions)} :
          IF res.diag # ""
          THEN /\ chkOp' = Op("Create", "-", <<res.diag>>, <<>>, plan, Absent, Nil)
               /\ UNCHANGED <<chkState, chkRemote, chkCfg>>
          ELSE IF regions.err
          THEN /\ chkOp' = Op("Create", "-", <<"Value Conversion Error">>,
                              <<>>, plan, Absent, Nil)
               /\ UNCHANGED <<chkState, chkRemote, chkCfg>>
          ELSE
            \E call \in {Call("POST", CheckPath,
                              CreateCheckRequest(plan, res.configMap, regions.v))} :
            \E rt \in {RoundTripCheck(call, fault, chkRemote)} :
            \E got \in {ClientCheck(rt.http)} :
               /\ chkRemote' = rt.remote
               /\ IF got.err # Nil
                  THEN /\ chkOp' = Op("Create", "-", <<"Error Creating Check">>,
                                      <<call>>, plan, rt.http, got.err)
                       /\ UNCHANGED <<chkState, chkCfg>>
                  ELSE \E new \in {CreateState(plan, got.v)} :
                       /\ chkOp' = Op("Create", "-", HostDiags(<<>>, new),
                                      <<call>>, plan, rt.http, Nil)
                       /\ chkState' = HostStore(new)
                       /\ chkCfg' = cfg

\* checkResource.Read
CheckRead(fault) ==
    /\ chkState # Absent
    /\ \E call \in {Call("GET", CheckPathOf(ValueString(chkState.id)), Nil)} :
       \E rt \in {RoundTripCheck(call, fault, chkRemote)} :
       \E got \in {ClientCheck(rt.http)} :
          /\ chkRemote' = rt.remote
          /\ UNCHANGED chkCfg
          /\ IF got.err # Nil
             THEN /\ chkOp' = Op("Read", chkOp.name, <<"Error Reading Check">>,
                                 <<call>>, Absent, rt.http, got.err)
                  /\ UNCHANGED chkState
             ELSE \E new \in {ReadState(chkState, got.v)} :
                  /\ chkOp' = Op("Read", chkOp.name, HostDiags(<<>>, new),
                                 <<call>>, Absent, rt.http, Nil)
                  /\ chkState' = HostStore(new)

\* checkResource.Update
CheckUpdate(cfg, fault) ==
    /\ chkState # Absent
    /\ \E plan \in {PlanCheck(cfg, chkState)} :
       /\ PlanDiffers(plan, chkState)
       /\ \E res \in {ResolveConfigUpdate(plan)} :
          \E regions \in {ElementsAs(plan.regions)} :
          IF res.diag # ""
          THEN /\ chkOp' = Op("Update", "-", <<res.diag>>, <<>>, plan, Absent, Nil)
               /\ UNCHANGED <<chkState, chkRemote, chkCfg>>
          ELSE IF regions.err
          THEN /\ chkOp' = Op("Update", "-", <<"Value Conversion Error">>,
                              <<>>, plan, Absent, Nil)
               /\ UNCHANGED <<chkState, chkRemote, chkCfg>>
          ELSE
            \E call \in {Call("PUT", CheckPathOf(ValueString(plan.id)),
                              UpdateCheckRequest(plan, res.configMap, regions.v))} :
            \E rt \in {RoundTripCheck(call, fault, chkRemote)} :
            \E got \in {ClientCheck(rt.http)} :
               /\ chkRemote' = rt.remote
               /\ IF got.err # Nil
                  THEN /\ chkOp' = Op("Update", "-", <<"Error Updating Check">>,
                                      <<call>>, plan, rt.http, got.err)
                       /\ UNCHANGED <<chkState, chkCfg>>
                  ELSE \E new \in {UpdateState(plan, got.v)} :
                       /\ chkOp' = Op("Update", "-", HostDiags(<<>>, new),
                                      <<call>>, plan, rt.http, Nil)
                       /\ chkState' = HostStore(new)
                       /\ chkCfg' = cfg

\* checkResource.Delete: on success the host drops the instance from state.
CheckDelete(fault) ==
    /\ chkState # Absent
    /\ \E call \in {Call("DELETE", CheckPathOf(ValueString(chkState.id)), Nil)} :
       \E rt \in {RoundTripCheck(call, fault, chkRemote)} :
       \E err \in {ClientDelete(rt.http)} :
          /\ chkRemote' = rt.remote
          /\ UNCHANGED chkCfg
          /\ IF err # Nil
             THEN /\ chkOp' = Op("Delete", "-", <<"Error Deleting Check">>,
                                 <<call>>, Absent, rt.http, err)
                  /\ UNCHANGED chkState
             ELSE /\ chkOp' = Op("Delete", "-", <<>>, <<call>>, Absent, rt.http, Nil)
                  /\ chkState' = Absent

\* The service probes the check: its health and last_checked move on.
ServerProbe(facts) ==
    /\ chkRemote # Absent
    /\ chkRemote' = [chkRemote EXCEPT !.health_status = facts.health,
                                      !.last_checked = facts.last]
    /\ chkRemote' # chkRemote
    /\ chkOp' = [NoOp EXCEPT !.name = "Probe"]
    /\ UNCHANGED <<chkState, chkCfg>>

\* The check disappears remotely (it expired, or someone deleted it).
ServerExpire ==
    /\ chkRemote # Absent
    /\ chkRemote' = Absent
    /\ chkOp' = [NoOp EXCEPT !.name = "Expire"]
    /\ UNCHANGED <<chkState, chkCfg>>

-----------------------------------------------------------------------------
(* quismon_alert_rule: configurations, plan and the handlers' local steps.  *)

AlertCheckIds == {"chk-1", "chk-2"}
AlertTriggers ==
    {[condition |-> Known([health_status |-> Known("down")]),
      notification_channel_ids |-> Known(<<"nc-1">>)],
     [condition |-> Known([failure_threshold |-> Known("3")]),
      notification_channel_ids |-> Known(<<"nc-1">>)],
     [condition |-> Known([health_status |-> Known("down")]),
      notification_channel_ids |-> Known(<<"nc-2", "nc-1">>)]}
BaseTrigger == CHOOSE t \in AlertTriggers :
    /\ t.condition = Known([health_status |-> Known("down")])
    /\ t.notification_channel_ids = Known(<<"nc-1">>)
AlertSwitches == {NullV, Known(TRUE), Known(FALSE)}

\* The configurations of the model: every name, trigger and setting of
\* enabled for a rule of the first check, and a rule of the second check with
\* every setting of enabled.
AlertConfigs ==
    {[check_id |-> Known("chk-1"), name |-> n, enabled |-> e] @@ t :
        n \in {Known("down"), Known("slow")}, e \in AlertSwitches,
        t \in AlertTriggers}
    \cup {[check_id |-> Known("chk-2"), name |-> Known("down"), enabled |-> e]
          @@ BaseTrigger : e \in AlertSwitches}

\* The attributes the schema marks Computed without a plan modifier.
AlertComputed == {"enabled", "created_at", "updated_at"}

\* What the host proposes before the provider's plan logic: the configured
\* values, and the prior value of a computed attribute the user left out.
ProposedAlert(cfg, prior) ==
    [id |-> IF prior = Absent THEN NullV ELSE prior.id,
     check_id |-> cfg.check_id,
     name |-> cfg.name,
     condition |-> cfg.condition,
     notification_channel_ids |-> cfg.notification_channel_ids,
     enabled |-> IF ~IsNull(cfg.enabled) THEN cfg.enabled
                 ELSE IF prior = Absent THEN NullV ELSE prior.enabled,
     created_at |-> IF prior = Absent THEN NullV ELSE prior.created_at,
     updated_at |-> IF prior = Absent THEN NullV ELSE prior.updated_at]

\* The plan of the alert rule: when the proposal differs from the prior state
\* every computed attribute the configuration leaves null becomes unknown,
\* except id, which UseStateForUnknown keeps.
PlanAlert(cfg, prior) ==
    LET proposed == ProposedAlert(cfg, prior)
    IN  IF prior # Absent /\ proposed = prior THEN proposed
        ELSE [a \in DOMAIN proposed |->
                IF a = "id" THEN UseStateForUnknown(prior, "id")
                ELSE IF a \in AlertComputed /\ (a # "enabled" \/ IsNull(cfg.enabled))
                THEN UnknownV
                ELSE proposed[a]]

\* The schema's plan modifier on check_id that never asks for a replacement.
AlertNeverReplace(plan, state) == FALSE

\* stringplanmodifier.RequiresReplace() on check_id: the resource is replaced
\* when the planned check_id differs from the one in state.
AlertRequiresReplace(plan, state) == plan.check_id # state.check_id

\* client.CreateAlertRuleRequest as Create fills it, marshalled (no omitempty).
CreateAlertRuleRequest(plan, conditionMap, channelIDs) ==
    [name |-> ValueString(plan.name),
     condition |-> conditionMap,
     notification_channel_ids |-> channelIDs,
     enabled |-> ValueBool(plan.enabled)]

\* client.UpdateAlertRuleRequest as Update fills it, marshalled: a pointer is
\* set only where Update finds a difference, and a nil pointer is omitted.
UpdateAlertRuleRequest(plan, state, channelIDs) ==
    Field("name", ValueString(plan.name) # ValueString(state.name),
          ValueString(plan.name))
    @@ Field("condition", ~AttrEqual(plan.condition, state.condition),
             CoerceMap(plan.condition))
    @@ Field("notification_channel_ids",
             ~AttrEqual(plan.notification_channel_ids, state.notification_channel_ids),
             channelIDs)
    @@ Field("enabled", ValueBool(plan.enabled) # ValueBool(state.enabled),
             ValueBool(plan.enabled))

\* client.AlertRule before decoding (`var rule AlertRule`).
ZeroAlertRule ==
    [id |-> "", check_id |-> "", name |-> "", condition |-> NilMap,
     notification_channel_ids |-> <<>>, enabled |-> FALSE,
     created_at |-> "", updated_at |-> ""]

\* Read's conversion of rule.Condition to a map of strings: a nil map has no
\* entries to range over, and the values of the model are JSON strings, which
\* fmt.Sprintf("%v") prints as they are.
ConditionValue(condition) ==
    IF condition.nil THEN Known(EmptyMap)
    ELSE Known([k \in DOMAIN condition.m |-> Known(condition.m[k])])

\* Create and Update keep the plan and take id and the timestamps of the rule.
AlertApplyState(plan, rule) ==
    [plan EXCEPT !.id = Known(rule.id),
                 !.created_at = Known(rule.created_at),
                 !.updated_at = Known(rule.updated_at)]

\* Read overwrites name, enabled, the timestamps and condition.
AlertReadState(state, rule) ==
    [state EXCEPT !.name = Known(rule.name),
                  !.enabled = Known(rule.enabled),
                  !.created_at = Known(rule.created_at),
                  !.updated_at = Known(rule.updated_at),
                  !.condition = ConditionValue(rule.condition)]

-----------------------------------------------------------------------------
(* The remote API for alert rules (nested under their check).               *)

AlertPath(checkID) == <<"v1", "checks", checkID, "alerts">>
AlertPathOf(checkID, ruleID) == <<"v1", "checks", checkID, "alerts", ruleID>>

\* The identifier the service gives to a new rule of a check.
RuleIdOf(checkID) == IF checkID = "chk-1" THEN "ar-1" ELSE "ar-2"

StoreAlert(checkID, body) ==
    [id |-> RuleIdOf(checkID),
     check_id |-> checkID,
     name |-> body.name,
     condition |-> body.condition,
     notification_channel_ids |-> body.notification_channel_ids,
     enabled |-> body.enabled,
     created_at |-> "t-created",
     updated_at |-> "t-created"]

PatchAlert(stored, body) ==
    [f \in DOMAIN stored |->
        IF f \in DOMAIN body THEN body[f]
        ELSE IF f = "updated_at" THEN "t-updated"
        ELSE stored[f]]

ServeAlert(call, remote) ==
    IF call.method = "POST"
    THEN LET stored == StoreAlert(call.path[3], call.body)
         IN  [http |-> Response(201, DataEnvelope(stored)), remote |-> stored]
    ELSE IF remote = Absent \/ call.path # AlertPathOf(remote.check_id, remote.id)
    THEN [http |-> Response(404, NotFoundBody), remote |-> remote]
    ELSE IF call.method = "GET"
    THEN [http |-> Response(200, DataEnvelope(remote)), remote |-> remote]
    ELSE IF call.method = "PUT"
    THEN LET stored == PatchAlert(remote, call.body)
         IN  [http |-> Response(200, DataEnvelope(stored)), remote |-> stored]
    ELSE [http |-> Response(200, Envelope(Nil, Nil, "{}")), remote |-> Absent]

RoundTripAlert(call, fault, remote) ==
    IF fault = Served THEN ServeAlert(call, remote)
    ELSE [http |-> Outcome(fault, Absent), remote |-> remote]

\* client.GetAlertRule / CreateAlertRule / UpdateAlertRule on the response.
ClientAlert(http) ==
    LET r == DoRequest(http)
    IN  IF r.err # Nil THEN [v |-> ZeroAlertRule, err |-> r.err]
        ELSE UnmarshalAPIResponse(r.data.v, ZeroAlertRule)

-----------------------------------------------------------------------------
(* quismon_alert_rule: the operations.                                      *)

\* The record of an operation on the alert rule: as for a check, with the
\* prior state the handler was given and, inside a replacement, the state
\* being replaced and the calls the replacement has made so far.
AlertNoOp == NoOp @@ [state |-> Absent, replaced |-> Absent]
AlertOp(name, diags, calls, plan, state, replaced, http, err) ==
    Op(name, "-", diags, calls, plan, http, err)
    @@ [state |-> state, replaced |-> replaced]

\* The replacement so far, with one more call.
Replacing(replaced, call) ==
    IF replaced = Absent THEN Absent
    ELSE [replaced EXCEPT !.calls = Append(@, call)]

\* alertRuleResource.Create for the configuration cfg.
AlertCreateHandler(cfg, fault, replaced) ==
    \E plan \in {PlanAlert(cfg, Absent)} :
    \E channelIDs \in {ElementsAs(plan.notification_channel_ids)} :
       IF channelIDs.err
       THEN /\ arOp' = AlertOp("Create", <<"Value Conversion Error">>, <<>>,
                               plan, Absent, replaced, Absent, Nil)
            /\ UNCHANGED <<arState, arRemote>>
       ELSE
         \E call \in {Call("POST", AlertPath(ValueString(plan.check_id)),
                           CreateAlertRuleRequest(plan, CoerceMap(plan.condition),
                                                  channelIDs.v))} :
         \E rt \in {RoundTripAlert(call, fault, arRemote)} :
         \E got \in {ClientAlert(rt.http)} :
            /\ arRemote' = rt.remote
            /\ IF got.err # Nil
               THEN /\ arOp' = AlertOp("Create", <<"Error Creating Alert Rule">>,
                                       <<call>>, plan, Absent,
                                       Replacing(replaced, call), rt.http, got.err)
                    /\ UNCHANGED arState
               ELSE \E new \in {AlertApplyState(plan, got.v)} :
                    /\ arOp' = AlertOp("Create", HostDiags(<<>>, new), <<call>>,
                                       plan, Absent, Replacing(replaced, call),
                                       rt.http, Nil)
                    /\ arState' = HostStore(new)

\* alertRuleResource.Delete for the tracked state; `plan` and `pending` are
\* the plan and the configuration of the replacement it opens, if any.
AlertDeleteHandler(fault, plan, pending) ==
    \E call \in {Call("DELETE", AlertPathOf(ValueString(arState.check_id),
                                            ValueString(arState.id)), Nil)} :
    \E rt \in {RoundTripAlert(call, fault, arRemote)} :
    \E err \in {DoRequest(rt.http).err} :
    \E replaced \in {IF pending = Absent THEN Absent
                     ELSE [state |-> arState, calls |-> <<call>>]} :
       /\ arRemote' = rt.remote
       /\ IF err # Nil
          THEN /\ arOp' = AlertOp("Delete", <<"Error Deleting Alert Rule">>,
                                  <<call>>, plan, arState, replaced, rt.http, err)
               /\ UNCHANGED <<arState, arPending>>
          ELSE /\ arOp' = AlertOp("Delete", <<>>, <<call>>, plan, arState,
                                  replaced, rt.http, Nil)
               /\ arState' = Absent
               /\ arPending' = IF pending = Absent THEN Absent
                               ELSE [cfg |-> pending, replaced |-> replaced]

\* The host creates the rule of a new configuration.
AlertCreate(cfg, fault) ==
    /\ arState = Absent
    /\ arPending = Absent
    /\ AlertCreateHandler(cfg, fault, Absent)
    /\ UNCHANGED arPending

\* alertRuleResource.Read
AlertRead(fault) ==
    /\ arState # Absent
    /\ arPending = Absent
    /\ UNCHANGED arPending
    /\ \E call \in {Call("GET", AlertPathOf(ValueString(arState.check_id),
                                            ValueString(arState.id)), Nil)} :
       \E rt \in {RoundTripAlert(call, fault, arRemote)} :
       \E got \in {ClientAlert(rt.http)} :
          /\ arRemote' = rt.remote
          /\ IF got.err # Nil
             THEN /\ arOp' = AlertOp("Read", <<"Error Reading Alert Rule">>,
                                     <<call>>, Absent, arState, Absent,
                                     rt.http, got.err)
                  /\ UNCHANGED arState
             ELSE \E new \in {AlertReadState(arState, got.v)} :
                  /\ arOp' = AlertOp("Read", HostDiags(<<>>, new), <<call>>,
                                     Absent, arState, Absent, rt.http, Nil)
                  /\ arState' = HostStore(new)

\* alertRuleResource.Update, which the host calls for a changed plan that
\* does not require a replacement.
AlertUpdate(cfg, fault) ==
    /\ arState # Absent
    /\ arPending = Absent
    /\ UNCHANGED arPending
    /\ \E plan \in {PlanAlert(cfg, arState)} :
       /\ plan # arState
       /\ ~AlertRequiresReplace(plan, arState)
       /\ \E channelIDs \in {ElementsAs(plan.notification_channel_ids)} :
          IF channelIDs.err
          THEN /\ arOp' = AlertOp("Update", <<"Value Conversion Error">>, <<>>,
                                  plan, arState, Absent, Absent, Nil)
               /\ UNCHANGED <<arState, arRemote>>
          ELSE
            \E call \in {Call("PUT", AlertPathOf(ValueString(arState.check_id),
                                                 ValueString(arState.id)),
                              UpdateAlertRuleRequest(plan, arState, channelIDs.v))} :
            \E rt \in {RoundTripAlert(call, fault, arRemote)} :
            \E got \in {ClientAlert(rt.http)} :
               /\ arRemote' = rt.remote
               /\ IF got.err # Nil
                  THEN /\ arOp' = AlertOp("Update", <<"Error Updating Alert Rule">>,
                                          <<call>>, plan, arState, Absent,
                                          rt.http, got.err)
                       /\ UNCHANGED arState
                  ELSE \E new \in {AlertApplyState(plan, got.v)} :
                       /\ arOp' = AlertOp("Update", HostDiags(<<>>, new), <<call>>,
                                          plan, arState, Absent, rt.http, Nil)
                       /\ arState' = HostStore(new)

\* The host destroys the rule.
AlertDelete(fault) ==
    /\ arState # Absent
    /\ arPending = Absent
    /\ AlertDeleteHandler(fault, Absent, Absent)

\* The host replaces the rule, first half: the plan requires a replacement,
\* so the host calls Delete for the prior state and keeps the configuration
\* for the Create that follows.
AlertReplaceDelete(cfg, fault) ==
    /\ arState # Absent
    /\ arPending = Absent
    /\ \E plan \in {PlanAlert(cfg, arState)} :
       /\ AlertRequiresReplace(plan, arState)
       /\ AlertDeleteHandler(fault, plan, cfg)

\* The host replaces the rule, second half: Create for the kept configuration.
AlertReplaceCreate(fault) ==
    /\ arPending # Absent
    /\ AlertCreateHandler(arPending.cfg, fault, arPending.replaced)
    /\ arPending' = Absent

\* Someone switches the rule on or off outside Terraform.
AlertRemoteToggle ==
    /\ arRemote # Absent
    /\ arPending = Absent
    /\ arRemote' = [arRemote EXCEPT !.enabled = ~@]
    /\ arOp' = [AlertNoOp EXCEPT !.name = "Toggle"]
    /\ UNCHANGED <<arState, arPending>>

-----------------------------------------------------------------------------
(* alertRuleResource.ImportState on bounded identifiers.  An identifier is  *)
(* a sequence of characters.                                                *)

MaxIdLen == 4
IdChars == {"a", "b", ":"}
RECURSIVE IdsOfLen(_)
IdsOfLen(n) ==
    IF n = 0 THEN {<<>>}
    ELSE {Append(id, c) : id \in IdsOfLen(n - 1), c \in IdChars}
ImportIds == UNION {IdsOfLen(n) : n \in 0..MaxIdLen}

\* strings.Split(s, sep) for a one-character sep: the pieces between the
\* separators, so one piece more than there are separators ("" gives [""]).
RECURSIVE Split(_, _)
Split(s, sep) ==
    IF \A i \in 1..Len(s) : s[i] # sep THEN <<s>>
    ELSE LET i == CHOOSE j \in 1..Len(s) :
                    s[j] = sep /\ \A k \in 1..(j - 1) : s[k] # sep
         IN  <<SubSeq(s, 1, i - 1)>> \o Split(SubSeq(s, i + 1, Len(s)), sep)

\* ImportState that takes the first two of two or more parts.
ImportStateRespLenient(id) ==
    LET parts == Split(id, ":")
    IN  IF Len(parts) < 2
        THEN [diags |-> <<"Invalid Import ID">>, state |-> EmptyMap]
        ELSE [diags |-> <<>>,
              state |-> [check_id |-> Known(parts[1]), id |-> Known(parts[2])]]

\* The response of ImportState: the attributes it set and its diagnostics.
ImportStateResp(id) ==
    LET parts == Split(id, ":")
    IN  IF Len(parts) # 2
        THEN [diags |-> <<"Invalid Import ID">>, state |-> EmptyMap]
        ELSE [diags |-> <<>>,
              state |-> [check_id |-> Known(parts[1]), id |-> Known(parts[2])]]

\* alertRuleResource.ImportState
AlertImportState(id) ==
    /\ impId' = id
    /\ impResp' = ImportStateResp(id)

-----------------------------------------------------------------------------
(* expiresAfterSecondsModifier.PlanModifyInt64 on bounded values.           *)

MaxExpires == 8
PlanInt64s ==
    {NullV, UnknownV, Known(3600)} \cup {Known(n) : n \in (-1)..MaxExpires}
StateInt64s ==
    {NullV, Known(3600)} \cup {Known(n) : n \in 0..MaxExpires}

\* PlanModifyInt64 that takes every planned value that is not null.
PlanModifyInt64AnySet(req) ==
    IF ~IsNull(req.PlanValue)
    THEN [PlanValue |-> req.PlanValue]
    ELSE IF ~IsNull(req.StateValue)
    THEN [PlanValue |-> req.StateValue]
    ELSE [PlanValue |-> req.PlanValue]

\* PlanModifyInt64: the response's plan value.
PlanModifyInt64(req) ==
    IF ~IsNull(req.PlanValue) /\ ValueInt64(req.PlanValue) > 0
    THEN [PlanValue |-> req.PlanValue]
    ELSE IF ~IsNull(req.StateValue)
    THEN [PlanValue |-> req.StateValue]
    ELSE [PlanValue |-> req.PlanValue]

\* The framework runs the modifier for a planned and a state value.
ModifyPlan(planValue, stateValue) ==
    /\ pmReq' = [PlanValue |-> planValue, StateValue |-> stateValue]
    /\ pmResp' = PlanModifyInt64(pmReq')

-----------------------------------------------------------------------------
(* quismon_signup: the quick-signup call, the handlers and the operations.  *)

MaxOrgs == 2
SignupConfigs ==
    [email : {Known("a@x.io"), Known("b@x.io")},
     org_name : {NullV, Known("Acme")}]
BaseURLs == {"", "https://api.quismon.com"}

\* The attributes the schema marks Computed without a plan modifier.
SignupComputed == {"org_name", "org_id", "api_key", "verification_required"}

ProposedSignup(cfg, prior) ==
    [id |-> IF prior = Absent THEN NullV ELSE prior.id,
     email |-> cfg.email,
     org_name |-> IF ~IsNull(cfg.org_name) THEN cfg.org_name
                  ELSE IF prior = Absent THEN NullV ELSE prior.org_name,
     org_id |-> IF prior = Absent THEN NullV ELSE prior.org_id,
     api_key |-> IF prior = Absent THEN NullV ELSE prior.api_key,
     verification_required |->
        IF prior = Absent THEN NullV ELSE prior.verification_required]

\* The plan of the signup: when the proposal differs from the prior state
\* every computed attribute the configuration leaves null becomes unknown,
\* except id, which UseStateForUnknown keeps.
PlanSignup(cfg, prior) ==
    LET proposed == ProposedSignup(cfg, prior)
    IN  IF prior # Absent /\ proposed = prior THEN proposed
        ELSE [a \in DOMAIN proposed |->
                IF a = "id" THEN UseStateForUnknown(prior, "id")
                ELSE IF a \in SignupComputed /\ (a # "org_name" \/ IsNull(cfg.org_name))
                THEN UnknownV
                ELSE proposed[a]]

\* client.QuickSignupRequest as Create fills it, marshalled: org_name is
\* omitted when empty.
QuickSignupRequest(plan) ==
    [email |-> ValueString(plan.email)]
    @@ Field("org_name", ValueString(plan.org_name) # "", ValueString(plan.org_name))

ZeroSignupResponse ==
    [org_id |-> "", api_key |-> "", email |-> "", verification_required |-> FALSE]

SignupPath == <<"v1", "auth", "quick-signup">>
OrgPathOf(id) == <<"v1", "orgs", id>>

\* The service creates an organization and a key for every signup.
NewOrg(orgs, body) ==
    [org_id |-> Cardinality(orgs) + 1,
     email |-> body.email,
     org_name |-> IF "org_name" \in DOMAIN body THEN body.org_name
                  ELSE "My Organization"]
ServeSignup(call, orgs, verify) ==
    IF call.method = "POST" /\ call.path = SignupPath
    THEN LET org == NewOrg(orgs, call.body)
         IN  [http |-> Response(201, DataEnvelope(
                          [org_id |-> org.org_id, api_key |-> <<"key", org.org_id>>,
                           email |-> org.email, verification_required |-> verify])),
              orgs |-> orgs \cup {org}]
    ELSE IF call.method = "DELETE"
    THEN [http |-> Response(200, Envelope(Nil, Nil, "{}")),
          orgs |-> {o \in orgs : OrgPathOf(o.org_id) # call.path}]
    ELSE [http |-> Response(404, NotFoundBody), orgs |-> orgs]
RoundTripSignup(call, fault, orgs, verify) ==
    IF fault = Served THEN ServeSignup(call, orgs, verify)
    ELSE [http |-> Outcome(fault, Absent), orgs |-> orgs]

\* client.QuickSignup from the point where httpClient.Do returns.
QuickSignup(http) ==
    IF http.kind = "transport" THEN [v |-> ZeroSignupResponse, err |-> TransportErrorf]
    ELSE IF http.status >= 400
    THEN (IF http.body.valid /\ ~http.body.error.nil
          THEN [v |-> ZeroSignupResponse,
                err |-> APIErrorf(http.status, http.body.error.v)]
          ELSE [v |-> ZeroSignupResponse,
                err |-> APIErrorf(http.status, http.body.text)])
    ELSE LET r == UnmarshalAPIResponse(http.body, ZeroSignupResponse)
         IN  IF r.err # Nil
             THEN [v |-> ZeroSignupResponse,
                   err |-> [type |-> "*fmt.wrapError",
                            format |-> "failed to unmarshal response: %w"]]
             ELSE r

\* "Set the computed values" of Create.
SignupCreateState(plan, signupResp) ==
    [plan EXCEPT !.id = Known(signupResp.org_id),
                 !.org_id = Known(signupResp.org_id),
                 !.api_key = Known(signupResp.api_key),
                 !.verification_required = Known(signupResp.verification_required)]

\* The calls of a Delete that removes the organization it signed up.
SignupDeleteCallsOrg(state) ==
    <<Call("DELETE", OrgPathOf(ValueString(state.org_id)), Nil)>>

\* The calls Delete makes: it reads the state and returns.
SignupDeleteCalls(state) == <<>>

\* The organizations left after the service has served the calls.
RECURSIVE ServeAll(_, _)
ServeAll(calls, orgs) ==
    IF calls = <<>> THEN orgs
    ELSE ServeAll(Tail(calls), ServeSignup(Head(calls), orgs, FALSE).orgs)

\* The record of an operation on the signup: as for a check, with the prior
\* state the handler was given and the organizations that existed before.
SignupNoOp == NoOp @@ [state |-> Absent, orgs |-> {}]
SignupOp(name, diags, calls, plan, state, orgs, http, err) ==
    Op(name, "-", diags, calls, plan, http, err) @@ [state |-> state, orgs |-> orgs]

\* signupResource.Create, for a resource configured with baseURL.
SignupCreate(cfg, baseURL, fault, verify) ==
    /\ suState = Absent
    /\ Cardinality(suRemote) < MaxOrgs
    /\ \E plan \in {PlanSignup(cfg, Absent)} :
       IF baseURL = ""
       THEN /\ suOp' = SignupOp("Create", <<"Error creating signup">>, <<>>, plan,
                                Absent, suRemote, Absent,
                                [type |-> "*errors.errorString",
                                 format |-> "base URL is required"])
            /\ UNCHANGED <<suState, suRemote>>
       ELSE
         \E call \in {Call("POST", SignupPath, QuickSignupRequest(plan))} :
         \E rt \in {RoundTripSignup(call, fault, suRemote, verify)} :
         \E got \in {QuickSignup(rt.http)} :
            /\ suRemote' = rt.orgs
            /\ IF got.err # Nil
               THEN /\ suOp' = SignupOp("Create", <<"Error creating signup">>,
                                        <<call>>, plan, Absent, suRemote,
                                        rt.http, got.err)
                    /\ UNCHANGED suState
               ELSE \E new \in {SignupCreateState(plan, got.v)} :
                    /\ suOp' = SignupOp("Create", HostDiags(<<>>, new), <<call>>,
                                        plan, Absent, suRemote, rt.http, Nil)
                    /\ suState' = HostStore(new)

\* signupResource.Read: the state is set to the state read.
SignupRead ==
    /\ suState # Absent
    /\ suOp' = SignupOp("Read", HostDiags(<<>>, suState), <<>>, Absent, suState,
                        suRemote, Absent, Nil)
    /\ suState' = HostStore(suState)
    /\ UNCHANGED suRemote

\* signupResource.Update: the state is set to the plan.
SignupUpdate(cfg) ==
    /\ suState # Absent
    /\ \E plan \in {PlanSignup(cfg, suState)} :
       /\ plan # suState
       /\ suOp' = SignupOp("Update", HostDiags(<<>>, plan), <<>>, plan, suState,
                           suRemote, Absent, Nil)
       /\ suState' = HostStore(plan)
       /\ UNCHANGED suRemote

\* signupResource.Delete; the host then drops the instance from state.
SignupDelete ==
    /\ suState # Absent
    /\ \E calls \in {SignupDeleteCalls(suState)} :
       /\ suOp' = SignupOp("Delete", <<>>, calls, Absent, suState, suRemote,
                           Absent, Nil)
       /\ suRemote' = ServeAll(calls, suRemote)
       /\ suState' = Absent

-----------------------------------------------------------------------------
(* quismon_check: import of a check that exists remotely.                   *)

CheckImportIds == {"chk-1", "chk-9"}
CheckAttributes == DOMAIN PlanCheck(BaseBasics @@ BaseSource, Absent)

\* resource.ImportStatePassthroughID(ctx, path.Root("id"), req, resp): the
\* state holds the identifier and nothing else.
CheckImportedState(id) ==
    [a \in CheckAttributes |-> IF a = "id" THEN Known(id) ELSE NullV]

\* checkResource.ImportState
CheckImportState(id) ==
    /\ chkState = Absent
    /\ chkState' = CheckImportedState(id)
    /\ chkOp' = Op("Import", "-", <<>>, <<>>, Absent, Absent, Nil)
    /\ UNCHANGED <<chkRemote, chkCfg>>

\* The host forgets the instance (terraform state rm): the check stays.
CheckForget ==
    /\ chkState # Absent
    /\ chkState' = Absent
    /\ chkOp' = [NoOp EXCEPT !.name = "Forget"]
    /\ UNCHANGED <<chkRemote, chkCfg>>

-----------------------------------------------------------------------------
(* The state-file fallback: findStateFile and readAPIKeyFromState.  A file  *)
(* is missing, unreadable, no JSON, or a state with resources in file order.*)

MaxResources == 2
MaxInstances == 2

Candidates == <<"terraform.tfstate", ".terraform/terraform.tfstate">>

Missing == [kind |-> "missing"]
Unreadable == [kind |-> "unreadable"]
Garbage == [kind |-> "garbage"]
StateOf(resources) == [kind |-> "state", resources |-> resources]

\* The attributes of an instance: api_key as a JSON string or as null.
InstanceAttributes ==
    {[api_key |-> Str("")], [api_key |-> Str("k1")], [api_key |-> Str("k2")],
     [api_key |-> Lit("null")]}

RECURSIVE SeqsUpTo(_, _)
SeqsUpTo(S, n) ==
    IF n = 0 THEN {<<>>}
    ELSE SeqsUpTo(S, n - 1)
         \cup {Append(q, x) : q \in {r \in SeqsUpTo(S, n - 1) : Len(r) = n - 1}, x \in S}

\* The resources of the model: a signup with any instances, and a check
\* whose one instance has an api_key attribute of its own.
StateResources(maxInstances) ==
    {[type |-> "quismon_signup", instances |-> is] :
        is \in SeqsUpTo(InstanceAttributes, maxInstances)}
    \cup {[type |-> "quismon_check", instances |-> <<[api_key |-> Str("k9")]>>]}
StateFiles(maxResources, maxInstances) ==
    {Unreadable, Garbage}
    \cup {StateOf(rs) : rs \in SeqsUpTo(StateResources(maxInstances), maxResources)}

\* The working directory: what each candidate path holds.
BackupFile ==
    StateOf(<<[type |-> "quismon_signup", instances |-> <<[api_key |-> Str("k2")]>>]>>)
Directory(root, dot) ==
    [p \in {Candidates[1], Candidates[2]} |-> IF p = Candidates[1] THEN root ELSE dot]
Directories(maxResources, maxInstances) ==
    {Directory(root, dot) : root \in StateFiles(maxResources, maxInstances) \cup {Missing},
                            dot \in {Missing, BackupFile}}

\* findStateFile: the first candidate that exists, "" when none does.
findStateFile(dir) ==
    IF dir[Candidates[1]] # Missing THEN Candidates[1]
    ELSE IF dir[Candidates[2]] # Missing THEN Candidates[2]
    ELSE ""

\* attrs["api_key"].(string): the value, and whether it is a string.
AsString(attrs) ==
    IF "api_key" \in DOMAIN attrs /\ attrs.api_key[1] = "s"
    THEN [v |-> attrs.api_key[2], ok |-> TRUE]
    ELSE [v |-> "", ok |-> FALSE]

NoKey == [apiKey |-> "", warning |-> ""]
FoundKey(key, statePath) ==
    [apiKey |-> key,
     warning |-> <<"Using API key from terraform state (%s).", statePath>>]

\* The loop over state.Resources from resource i on: the first instance of
\* each quismon_signup resource is looked at, and no other instance.
RECURSIVE ScanResources(_, _, _)
ScanResources(resources, i, statePath) ==
    IF i > Len(resources) THEN NoKey
    ELSE LET resource == resources[i]
         IN  IF /\ resource.type = "quismon_signup"
                /\ Len(resource.instances) > 0
                /\ AsString(resource.instances[1]).ok
                /\ AsString(resource.instances[1]).v # ""
             THEN FoundKey(AsString(resource.instances[1]).v, statePath)
             ELSE ScanResources(resources, i + 1, statePath)

\* readAPIKeyFromState
readAPIKeyFromState(dir) ==
    LET statePath == findStateFile(dir)
    IN  IF statePath = "" THEN NoKey
        ELSE IF dir[statePath].kind # "state" THEN NoKey
        ELSE ScanResources(dir[statePath].resources, 1, statePath)

\* One call of readAPIKeyFromState in the directory chosen at the start.
ReadKeyFromState ==
    /\ sfReq # Absent
    /\ sfResp = Absent
    /\ sfResp' = readAPIKeyFromState(sfReq)
    /\ UNCHANGED sfReq

-----------------------------------------------------------------------------
(* quismonProvider.Configure: the API key and the base URL of the client.   *)

DefaultBaseURL == "https://api.quismon.com"

ProviderConfigs ==
    [api_key : {NullV, UnknownV, Known(""), Known("cfg-key")},
     base_url : {NullV, UnknownV, Known("https://eu.quismon.com")}]
Environments ==
    [QUISMON_API_KEY : {"", "env-key"},
     QUISMON_BASE_URL : {"", "http://localhost:8080"}]
ProviderDirectories ==
    {Directory(Missing, Missing),
     Directory(Garbage, BackupFile),
     Directory(StateOf(<<[type |-> "quismon_check",
                          instances |-> <<[api_key |-> Str("k9")]>>]>>), Missing),
     Directory(StateOf(<<[type |-> "quismon_signup",
                          instances |-> <<[api_key |-> Str("k1")]>>]>>), Missing)}

\* client.New
NewClient(baseURL, apiKey) ==
    IF baseURL = ""
    THEN [client |-> Absent,
          err |-> [type |-> "*errors.errorString", format |-> "base URL is required"]]
    ELSE [client |-> [BaseURL |-> baseURL, APIKey |-> apiKey], err |-> Nil]

\* Configure that reports the key read from the state file as an error.
ConfigureStateKeyIsError(config, env, dir) ==
    IF config.api_key = UnknownV \/ config.base_url = UnknownV
    THEN [errors |->
            (IF config.api_key = UnknownV THEN <<"Unknown Quismon API Key">> ELSE <<>>)
            \o (IF config.base_url = UnknownV THEN <<"Unknown Quismon Base URL">> ELSE <<>>),
          warnings |-> <<>>, client |-> Absent]
    ELSE
      LET apiKey0 == IF ~IsNull(config.api_key) THEN ValueString(config.api_key)
                     ELSE env.QUISMON_API_KEY
          baseURL0 == IF ~IsNull(config.base_url) THEN ValueString(config.base_url)
                      ELSE env.QUISMON_BASE_URL
          baseURL == IF baseURL0 = "" THEN DefaultBaseURL ELSE baseURL0
          fromState == IF apiKey0 = "" THEN readAPIKeyFromState(dir) ELSE NoKey
          apiKey == IF fromState.apiKey # "" THEN fromState.apiKey ELSE apiKey0
          c == NewClient(baseURL, apiKey)
      IN  IF c.err # Nil
          THEN [errors |-> <<"Unable to Create Quismon API Client">>,
                warnings |-> <<>>, client |-> Absent]
          ELSE [errors |-> (IF fromState.apiKey # ""
                           THEN <<"API Key Read from Terraform State">> ELSE <<>>),
                warnings |-> <<>>, client |-> c.client]

\* quismonProvider.Configure: its diagnostics and the client it hands to the
\* resources.
Configure(config, env, dir) ==
    IF config.api_key = UnknownV \/ config.base_url = UnknownV
    THEN [errors |->
            (IF config.api_key = UnknownV THEN <<"Unknown Quismon API Key">> ELSE <<>>)
            \o (IF config.base_url = UnknownV THEN <<"Unknown Quismon Base URL">> ELSE <<>>),
          warnings |-> <<>>, client |-> Absent]
    ELSE
      LET apiKey0 == IF ~IsNull(config.api_key) THEN ValueString(config.api_key)
                     ELSE env.QUISMON_API_KEY
          baseURL0 == IF ~IsNull(config.base_url) THEN ValueString(config.base_url)
                      ELSE env.QUISMON_BASE_URL
          baseURL == IF baseURL0 = "" THEN DefaultBaseURL ELSE baseURL0
          fromState == IF apiKey0 = "" THEN readAPIKeyFromState(dir) ELSE NoKey
          apiKey == IF fromState.apiKey # "" THEN fromState.apiKey ELSE apiKey0
          c == NewClient(baseURL, apiKey)
      IN  IF c.err # Nil
          THEN [errors |-> <<"Unable to Create Quismon API Client">>,
                warnings |-> (IF fromState.apiKey # ""
                             THEN <<"API Key Read from Terraform State">> ELSE <<>>), client |-> Absent]
          ELSE [errors |-> <<>>,
                warnings |-> (IF fromState.apiKey # ""
                             THEN <<"API Key Read from Terraform State">> ELSE <<>>), client |-> c.client]

\* The host configures the provider.
ProviderConfigure(config, env, dir) ==
    /\ pvReq' = [config |-> config, env |-> env, dir |-> dir]
    /\ pvResp' = Configure(config, env, dir)

-----------------------------------------------------------------------------
(* Client.DoRequest up to HTTPClient.Do: the request it builds.  An API key *)
(* is a sequence of characters in which "Bearer" stands for the six letters *)
(* of that word.                                                            *)

MaxKeyLen == 5
KeySymbols == {" ", "\t", "Bearer", "k"}
KeyStrings == SeqsUpTo(KeySymbols, MaxKeyLen)

\* unicode.IsSpace on the characters of the model.
IsSpace(c) == c \in {" ", "\t"}

\* strings.TrimSpace: the string without its leading and trailing white space.
RECURSIVE TrimLeft(_)
TrimLeft(s) ==
    IF s # <<>> /\ IsSpace(Head(s)) THEN TrimLeft(Tail(s)) ELSE s
RECURSIVE TrimRight(_)
TrimRight(s) ==
    IF s # <<>> /\ IsSpace(s[Len(s)]) THEN TrimRight(SubSeq(s, 1, Len(s) - 1)) ELSE s
TrimSpace(s) == TrimRight(TrimLeft(s))

\* strings.HasPrefix
HasPrefix(s, prefix) ==
    Len(s) >= Len(prefix) /\ SubSeq(s, 1, Len(prefix)) = prefix

\* The literal "Bearer ".
BearerPrefix == <<"Bearer", " ">>

\* http.Header: a function from the names that are set to their values.
NoHeader == [name \in {} |-> <<>>]
HeaderSet(header, name, value) ==
    [n \in DOMAIN header \cup {name} |-> IF n = name THEN value ELSE header[n]]

\* The Authorization step with the prefix added to every non-empty key.
SetAuthorizationAlwaysPrefix(header, key) ==
    IF TrimSpace(key) # <<>>
    THEN HeaderSet(header, "Authorization", BearerPrefix \o TrimSpace(key))
    ELSE header

\* The Authorization step of DoRequest: no header for a key that trims to
\* the empty string, the trimmed key as it is when it starts with "Bearer ",
\* "Bearer " and the trimmed key otherwise.
SetAuthorization(header, key) ==
    LET apiKey == TrimSpace(key)
    IN  IF apiKey # <<>>
        THEN (IF ~HasPrefix(apiKey, BearerPrefix)
              THEN HeaderSet(header, "Authorization", BearerPrefix \o apiKey)
              ELSE HeaderSet(header, "Authorization", apiKey))
        ELSE header

\* The request DoRequest hands to HTTPClient.Do.
ClientRequest(c, call) ==
    [method |-> call.method,
     url    |-> <<c.BaseURL, call.path>>,
     body   |-> call.body,
     header |-> HeaderSet(HeaderSet(SetAuthorization(NoHeader, c.APIKey),
                                    "Content-Type", <<"application/json">>),
                          "User-Agent", <<"terraform-provider-quismon/1.0">>)]

\* A DoRequest that sends the request again after a failure.
RequestsSentRetrying(c, call, http) ==
    IF http.kind = "transport" \/ http.status >= 400
    THEN <<ClientRequest(c, call), ClientRequest(c, call)>>
    ELSE <<ClientRequest(c, call)>>

\* The requests one DoRequest hands to HTTPClient.Do, in order: one, whatever
\* the transport or the server answers.
RequestsSent(c, call, http) == <<ClientRequest(c, call)>>

\* The inputs of the model: clients, calls and what the transport answers.
ClientBaseURL == "https://api.quismon.com"
ClientCalls ==
    {Call("GET", "/v1/checks/chk-1", Nil),
     Call("POST", "/v1/checks", Ptr([name |-> "web"])),
     Call("DELETE", "/v1/checks/chk-1", Nil)}
ClientStatuses == {200, 201, 204, 399, 400, 401, 404, 500, 503}
ClientBodies ==
    {Envelope(Ptr([id |-> "chk-1"]), Nil, "{\"data\":{\"id\":\"chk-1\"}}"),
     Envelope(Nil, Ptr("not found"), "{\"error\":\"not found\"}"),
     Envelope(Nil, Nil, "{}"),
     RawBody("<html>bad gateway</html>"),
     RawBody("")}
HTTPOutcomes ==
    {TransportFailure} \cup {Response(s, b) : s \in ClientStatuses, b \in ClientBodies}
ClientRequests ==
    [client : {[BaseURL |-> ClientBaseURL, APIKey |-> k] : k \in KeyStrings},
     call   : {Call("GET", "/v1/checks/chk-1", Nil)},
     http   : {Response(200, Envelope(Nil, Nil, "{}"))}]
    \cup
    [client : {[BaseURL |-> ClientBaseURL, APIKey |-> <<"k">>]},
     call   : ClientCalls,
     http   : HTTPOutcomes]

\* One call of Client.DoRequest.
ClientDoRequest ==
    /\ clReq # Absent
    /\ clResp = Absent
    /\ clResp' = [sent   |-> RequestsSent(clReq.client, clReq.call, clReq.http),
                  result |-> DoRequest(clReq.http)]
    /\ UNCHANGED clReq

-----------------------------------------------------------------------------
(* quismon_notification_channel: configurations, plan, the handlers' local  *)
(* steps, the remote API and the operations.                                *)

ChannelAttributes ==
    {"id", "org_id", "name", "type", "config", "enabled", "created_at", "updated_at"}
ChannelConfigMaps ==
    {Known([url |-> Known("https://hook.example.com")]),
     Known([url |-> Known("https://hook.example.com"), secret |-> Known("s3cr3t")])}
ChannelConfigs ==
    [name    : {Known("ops"), Known("oncall")},
     type    : {Known("webhook")},
     config  : ChannelConfigMaps,
     enabled : {NullV, Known(TRUE), Known(FALSE)}]
ChannelImportIds == {"nc-1", "nc-9"}

\* The plan of a change: the schema has no default and no plan modifier, so
\* a computed attribute the configuration leaves null is unknown.
PlanChannel(cfg) ==
    [id |-> UnknownV,
     org_id |-> UnknownV,
     name |-> cfg.name,
     type |-> cfg.type,
     config |-> cfg.config,
     enabled |-> IF IsNull(cfg.enabled) THEN UnknownV ELSE cfg.enabled,
     created_at |-> UnknownV,
     updated_at |-> UnknownV]
\* The host plans an update when a configured attribute differs from state.
ChannelDiffers(cfg, prior) ==
    \/ cfg.name # prior.name
    \/ cfg.type # prior.type
    \/ cfg.config # prior.config
    \/ ~IsNull(cfg.enabled) /\ cfg.enabled # prior.enabled

CreateNotificationChannelRequest(plan) ==
    [name |-> ValueString(plan.name),
     type |-> ValueString(plan.type),
     config |-> CoerceMap(plan.config),
     enabled |-> ValueBool(plan.enabled)]
\* Every pointer of the update request is set, so no member is omitted.
UpdateNotificationChannelRequest(plan) ==
    [name |-> ValueString(plan.name),
     config |-> CoerceMap(plan.config),
     enabled |-> ValueBool(plan.enabled)]

\* var channel NotificationChannel
ZeroChannel ==
    [id |-> "", org_id |-> "", name |-> "", type |-> "", config |-> NilMap,
     enabled |-> FALSE, created_at |-> "", updated_at |-> ""]

\* What Create writes into the plan before it stores it.
ChannelCreateState(plan, channel) ==
    [plan EXCEPT
        !.id = Known(channel.id),
        !.org_id = Known(channel.org_id),
        !.created_at = Known(channel.created_at),
        !.updated_at = Known(channel.updated_at)]

\* A Read that also takes the config map of the response into state.
ChannelReadStateWithConfig(state, channel) ==
    [state EXCEPT
        !.org_id = Known(channel.org_id),
        !.name = Known(channel.name),
        !.type = Known(channel.type),
        !.config = IF channel.config.nil THEN NullV
                   ELSE Known([k \in DOMAIN channel.config.m |->
                                  Known(channel.config.m[k])]),
        !.enabled = Known(channel.enabled),
        !.created_at = Known(channel.created_at),
        !.updated_at = Known(channel.updated_at)]

\* What Read writes into the prior state before it stores it.
ChannelReadState(state, channel) ==
    [state EXCEPT
        !.org_id = Known(channel.org_id),
        !.name = Known(channel.name),
        !.type = Known(channel.type),
        !.enabled = Known(channel.enabled),
        !.created_at = Known(channel.created_at),
        !.updated_at = Known(channel.updated_at)]

\* What Update writes into the plan before it stores it.
ChannelUpdateState(plan, channel) ==
    [plan EXCEPT !.updated_at = Known(channel.updated_at)]

\* The remote API for channels.  It may report a config value in the clear
\* or as a redaction placeholder.
StoreChannel(body) ==
    [id |-> "nc-1", org_id |-> "org-1",
     name |-> body.name, type |-> body.type, config |-> body.config,
     enabled |-> body.enabled,
     created_at |-> "t-created", updated_at |-> "t-created"]
PatchChannel(stored, body) ==
    [f \in DOMAIN stored |->
        IF f \in DOMAIN body THEN body[f]
        ELSE IF f = "updated_at" THEN "t-updated"
        ELSE stored[f]]
Redacted(config) ==
    IF config.nil THEN config
    ELSE [nil |-> FALSE,
          m |-> [k \in DOMAIN config.m |->
                    IF k = "secret" THEN "***REDACTED***" ELSE config.m[k]]]
ChannelPayload(stored, redact) ==
    IF redact THEN [stored EXCEPT !.config = Redacted(stored.config)] ELSE stored

ChannelPath == <<"v1", "notification-channels">>
ChannelPathOf(id) == <<"v1", "notification-channels", id>>

ServeChannel(call, remote, redact) ==
    IF call.method = "POST"
    THEN LET stored == StoreChannel(call.body)
         IN  [http |-> Response(201, DataEnvelope(ChannelPayload(stored, redact))),
              remote |-> stored]
    ELSE IF remote = Absent \/ call.path # ChannelPathOf(remote.id)
    THEN [http |-> Response(404, NotFoundBody), remote |-> remote]
    ELSE IF call.method = "GET"
    THEN [http |-> Response(200, DataEnvelope(ChannelPayload(remote, redact))),
          remote |-> remote]
    ELSE IF call.method = "PUT"
    THEN LET stored == PatchChannel(remote, call.body)
         IN  [http |-> Response(200, DataEnvelope(ChannelPayload(stored, redact))),
              remote |-> stored]
    ELSE [http |-> Response(200, Envelope(Nil, Nil, "{}")), remote |-> Absent]

RoundTripChannel(call, fault, remote, redact) ==
    IF fault = Served THEN ServeChannel(call, remote, redact)
    ELSE [http |-> Outcome(fault, Absent), remote |-> remote]

\* client.GetNotificationChannel / CreateNotificationChannel /
\* UpdateNotificationChannel on the response received.
ClientChannel(http) ==
    LET r == DoRequest(http)
    IN  IF r.err # Nil THEN [v |-> ZeroChannel, err |-> r.err]
        ELSE UnmarshalAPIResponse(r.data.v, ZeroChannel)

\* notificationChannelResource.Create
ChannelCreate(cfg, fault, redact) ==
    /\ ncState = Absent
    /\ \E plan \in {PlanChannel(cfg)} :
       \E call \in {Call("POST", ChannelPath, CreateNotificationChannelRequest(plan))} :
       \E rt \in {RoundTripChannel(call, fault, ncRemote, redact)} :
       \E got \in {ClientChannel(rt.http)} :
          /\ ncRemote' = rt.remote
          /\ IF got.err # Nil
             THEN /\ ncOp' = Op("Create", "-", <<"Error Creating Notification Channel">>,
                                <<call>>, plan, rt.http, got.err)
                  /\ UNCHANGED ncState
             ELSE \E new \in {ChannelCreateState(plan, got.v)} :
                  /\ ncOp' = Op("Create", "-", HostDiags(<<>>, new),
                                <<call>>, plan, rt.http, Nil)
                  /\ ncState' = HostStore(new)

\* notificationChannelResource.Read
ChannelRead(fault, redact) ==
    /\ ncState # Absent
    /\ \E call \in {Call("GET", ChannelPathOf(ValueString(ncState.id)), Nil)} :
       \E rt \in {RoundTripChannel(call, fault, ncRemote, redact)} :
       \E got \in {ClientChannel(rt.http)} :
          /\ ncRemote' = rt.remote
          /\ IF got.err # Nil
             THEN /\ ncOp' = Op("Read", "-", <<"Error Reading Notification Channel">>,
                                <<call>>, Absent, rt.http, got.err)
                  /\ UNCHANGED ncState
             ELSE \E new \in {ChannelReadState(ncState, got.v)} :
                  /\ ncOp' = Op("Read", "-", HostDiags(<<>>, new),
                                <<call>>, Absent, rt.http, Nil)
                  /\ ncState' = HostStore(new)

\* notificationChannelResource.Update
ChannelUpdate(cfg, fault, redact) ==
    /\ ncState # Absent
    /\ ChannelDiffers(cfg, ncState)
    /\ \E plan \in {PlanChannel(cfg)} :
       \E call \in {Call("PUT", ChannelPathOf(ValueString(plan.id)),
                         UpdateNotificationChannelRequest(plan))} :
       \E rt \in {RoundTripChannel(call, fault, ncRemote, redact)} :
       \E got \in {ClientChannel(rt.http)} :
          /\ ncRemote' = rt.remote
          /\ IF got.err # Nil
             THEN /\ ncOp' = Op("Update", "-", <<"Error Updating Notification Channel">>,
                                <<call>>, plan, rt.http, got.err)
                  /\ UNCHANGED ncState
             ELSE \E new \in {ChannelUpdateState(plan, got.v)} :
                  /\ ncOp' = Op("Update", "-", HostDiags(<<>>, new),
                                <<call>>, plan, rt.http, Nil)
                  /\ ncState' = HostStore(new)

\* notificationChannelResource.Delete: on success the host drops the instance.
ChannelDelete(fault) ==
    /\ ncState # Absent
    /\ \E call \in {Call("DELETE", ChannelPathOf(ValueString(ncState.id)), Nil)} :
       \E rt \in {RoundTripChannel(call, fault, ncRemote, FALSE)} :
       \E err \in {DoRequest(rt.http).err} :
          /\ ncRemote' = rt.remote
          /\ IF err # Nil
             THEN /\ ncOp' = Op("Delete", "-", <<"Error Deleting Notification Channel">>,
                                <<call>>, Absent, rt.http, err)
                  /\ UNCHANGED ncState
             ELSE /\ ncOp' = Op("Delete", "-", <<>>, <<call>>, Absent, rt.http, Nil)
                  /\ ncState' = Absent

\* notificationChannelResource.ImportState: the identifier and nothing else.
ChannelImportState(id) ==
    /\ ncState = Absent
    /\ ncState' = [a \in ChannelAttributes |-> IF a = "id" THEN Known(id) ELSE NullV]
    /\ ncOp' = Op("Import", "-", <<>>, <<>>, Absent, Absent, Nil)
    /\ UNCHANGED ncRemote

\* The host forgets the instance (terraform state rm): the channel stays.
ChannelForget ==
    /\ ncState # Absent
    /\ ncState' = Absent
    /\ ncOp' = [NoOp EXCEPT !.name = "Forget"]
    /\ UNCHANGED ncRemote

\* Someone changes the channel out of band: its name, switch or config.
ChannelEdits ==
    {[name |-> "renamed"], [enabled |-> FALSE], [enabled |-> TRUE],
     [config |-> [nil |-> FALSE, m |-> [url |-> "https://other.example.com"]]]}
ServerEditChannel(edit) ==
    /\ ncRemote # Absent
    /\ ncRemote' = PatchChannel(ncRemote, edit)
    /\ [ncRemote' EXCEPT !.updated_at = ncRemote.updated_at] # ncRemote
    /\ ncOp' = [NoOp EXCEPT !.name = "Edit"]
    /\ UNCHANGED ncState

-----------------------------------------------------------------------------
(* Lookups by name: GetCheckByName and GetNotificationChannelByName list    *)
(* the collection and scan it.                                              *)

MaxListLen == 3
ItemNames == {"web", "Web", "api"}
RequestedNames == {"web", "api", "db", ""}
ItemIds == <<"id-1", "id-2", "id-3", "id-4", "id-5">>

\* The collection the server lists: the i-th element has the i-th id.
Collection(names) ==
    [i \in 1..Len(names) |-> [id |-> ItemIds[i], name |-> names[i]]]

\* What the listing call may receive.
ListingOutcomes ==
    {Response(200, Envelope(Ptr(Collection(names)), Nil, "{\"data\":[]}")) :
        names \in SeqsUpTo(ItemNames, MaxListLen)}
    \cup {TransportFailure,
          Response(500, Envelope(Nil, Ptr("internal error"), "{\"error\":\"internal error\"}")),
          Response(200, Envelope(Nil, Nil, "{}")),
          Response(200, RawBody("<html>maintenance</html>"))}
LookupRequests ==
    [kind : {"check", "channel"}, name : RequestedNames, http : ListingOutcomes]

\* UnmarshalAPIResponse(data, &v) for a slice v: every element of the data
\* array is decoded into a new struct, and no data leaves the slice nil.
UnmarshalAPIResponseSlice(body, zero) ==
    IF ~body.valid
    THEN [v |-> <<>>,
          err |-> [type |-> "*fmt.wrapError",
                   format |-> "failed to unmarshal API response: %w"]]
    ELSE IF ~body.error.nil
    THEN [v |-> <<>>,
          err |-> [type |-> "*errors.errorString", format |-> "API error: %s",
                   message |-> body.error.v]]
    ELSE IF ~body.data.nil
    THEN [v |-> [i \in DOMAIN body.data.v |-> JsonUnmarshalInto(body.data.v[i], zero)],
          err |-> Nil]
    ELSE [v |-> <<>>, err |-> Nil]

\* client.ListChecks / ListNotificationChannels on the response received.
ClientList(http, zero) ==
    LET r == DoRequest(http)
    IN  IF r.err # Nil THEN [v |-> <<>>, err |-> r.err]
        ELSE UnmarshalAPIResponseSlice(r.data.v, zero)

\* fmt.Errorf("check not found: %s", name) and its channel counterpart.
NotFoundErrorf(format, name) ==
    [type |-> "*errors.errorString", format |-> format, name |-> name]

\* A scan that keeps the last element of the name instead of the first.
RECURSIVE ScanByNameLast(_, _, _, _)
ScanByNameLast(items, name, i, format) ==
    IF i > Len(items) THEN [v |-> Nil, err |-> NotFoundErrorf(format, name)]
    ELSE IF items[Len(items) + 1 - i].name = name
    THEN [v |-> Ptr(items[Len(items) + 1 - i]), err |-> Nil]
    ELSE ScanByNameLast(items, name, i + 1, format)

\* The loop of the lookups: the first element whose name equals the name
\* asked for, the not-found error when the loop ends.
RECURSIVE ScanByName(_, _, _, _)
ScanByName(items, name, i, format) ==
    IF i > Len(items) THEN [v |-> Nil, err |-> NotFoundErrorf(format, name)]
    ELSE IF items[i].name = name THEN [v |-> Ptr(items[i]), err |-> Nil]
    ELSE ScanByName(items, name, i + 1, format)

GetCheckByName(name, http) ==
    LET checks == ClientList(http, ZeroCheck)
    IN  IF checks.err # Nil THEN [v |-> Nil, err |-> checks.err]
        ELSE ScanByName(checks.v, name, 1, "check not found: %s")

GetNotificationChannelByName(name, http) ==
    LET channels == ClientList(http, ZeroChannel)
    IN  IF channels.err # Nil THEN [v |-> Nil, err |-> channels.err]
        ELSE ScanByName(channels.v, name, 1, "notification channel not found: %s")

\* One lookup by name.
LookupByName ==
    /\ lkReq # Absent
    /\ lkResp = Absent
    /\ lkResp' = IF lkReq.kind = "check"
                 THEN GetCheckByName(lkReq.name, lkReq.http)
                 ELSE GetNotificationChannelByName(lkReq.name, lkReq.http)
    /\ UNCHANGED lkReq

-----------------------------------------------------------------------------
(* The region catalog of the regions data source and ValidateRegion.        *)

\* The codes of the table in regionsDataSource.Read, in source order.
regions ==
    <<"na-east-ewr", "na-west-sjc", "na-west-lax", "na-west-sea",
      "na-central-dfw", "na-central-ord", "na-east-mia", "na-east-atl",
      "na-east-yto", "na-central-mex", "sa-east-sao", "sa-west-scl",
      "eu-west-ams", "eu-west-lhr", "eu-west-man", "eu-central-fra",
      "eu-west-cdg", "eu-south-mad", "eu-north-waw", "eu-north-sto",
      "ap-northeast-nrt", "ap-northeast-itm", "ap-northeast-icn", "ap-southeast-sin",
      "ap-south-bom", "ap-south-del", "ap-south-blr", "ap-west-tlv",
      "au-southeast-syd", "au-south-mel", "af-south-jnb", "fr-par-1">>
CatalogCodes == {regions[i] : i \in DOMAIN regions}

\* The keys of the validRegions map of ValidateRegion, in source order.
validRegions ==
    <<"na-east-ewr", "na-west-sjc", "na-west-lax", "na-west-sea",
      "na-central-dfw", "na-central-ord", "na-east-mia", "na-east-atl",
      "na-east-yto", "na-central-mex", "sa-east-sao", "sa-west-scl",
      "eu-west-ams", "eu-west-lhr", "eu-west-man", "eu-central-fra",
      "eu-west-cdg", "eu-south-mad", "eu-north-waw", "eu-north-sto",
      "ap-northeast-nrt", "ap-northeast-itm", "ap-northeast-icn", "ap-southeast-sin",
      "ap-south-bom", "ap-south-del", "ap-south-blr", "ap-west-tlv",
      "au-southeast-syd", "au-south-mel", "af-south-jnb", "fr-par-1",
      "us-east-1", "eu-west-1", "ap-southeast-1">>

\* Strings that no table holds: other codes, other spellings of valid codes,
\* parts of valid codes and the empty string.
OtherCodes ==
    {"xx-bogus-1", "", "us-east-2", "us-west-1", "eu-west-2", "eu-central-1",
     "ap-southeast-2", "ap-northeast-1", "fr-par-2", "NA-EAST-EWR", "Na-East-Ewr",
     "na-east-ewr ", " na-east-ewr", "na_east_ewr", "na-east", "ewr", "na-east-ewr-1",
     "US-EAST-1", "us-east-1 ", "us-east", "eu-west", "global", "all", "*",
     "na-east-ewr,na-west-sjc"}
RegionInputs == CatalogCodes \cup {"us-east-1", "eu-west-1", "ap-southeast-1"} \cup OtherCodes

\* fmt.Errorf("invalid region code: %s. Use quismon_regions data source ...")
InvalidRegionErrorf(code) ==
    [type |-> "*errors.errorString", format |-> "invalid region code: %s", code |-> code]

\* A validation that knows the catalog only.
ValidateRegionCatalogOnly(code) ==
    IF code \notin CatalogCodes THEN InvalidRegionErrorf(code) ELSE Nil

\* ValidateRegion: a key the map lacks reads as false.
ValidateRegion(code) ==
    IF ~(\E i \in DOMAIN validRegions : validRegions[i] = code)
    THEN InvalidRegionErrorf(code)
    ELSE Nil

\* One call of ValidateRegion.
ValidateRegionCall ==
    /\ rgReq # Absent
    /\ rgResp = Absent
    /\ rgResp' = [err |-> ValidateRegion(rgReq.code)]
    /\ UNCHANGED rgReq

-----------------------------------------------------------------------------
(* quismon_organization_otlp: the organization's one OTLP configuration,    *)
(* set and read through /v1/org/otlp.                                       *)

OtlpAttributes == {"enabled", "endpoint", "headers", "export_interval_seconds"}
OtlpConfigs ==
    [enabled : {Known(TRUE), Known(FALSE)},
     endpoint : {NullV, Known("https://otlp.example.com")},
     headers : {NullV},
     export_interval_seconds : {NullV, Known(30)}]
    \cup
    [enabled : {Known(TRUE)},
     endpoint : {Known("https://otlp.example.com")},
     headers : {Known([Authorization |-> Known("token")]),
                Known([Authorization |-> NullV])},
     export_interval_seconds : {NullV}]

\* plan.Headers.ElementsAs(ctx, &headers, false) into map[string]string: an
\* error unless the map and every element of it are known.
HeadersElementsAs(m) ==
    IF IsKnown(m) /\ \A k \in DOMAIN m.value : IsKnown(m.value[k])
    THEN [err |-> FALSE, v |-> [k \in DOMAIN m.value |-> m.value[k].value]]
    ELSE [err |-> TRUE, v |-> <<>>]

\* updateReq of Create and Update: enabled always, the other members when
\* the plan sets them.
OtlpUpdateReq(plan, headers) ==
    [enabled |-> ValueBool(plan.enabled)]
    @@ Field("endpoint", ~IsNull(plan.endpoint), ValueString(plan.endpoint))
    @@ Field("headers", ~IsNull(plan.headers), headers)
    @@ Field("export_interval_seconds", ~IsNull(plan.export_interval_seconds),
             ValueInt64(plan.export_interval_seconds))

\* A Delete that only disables the export.
OtlpDeleteReqDisableOnly == [enabled |-> FALSE]

\* updateReq of Delete.
OtlpDeleteReq == [enabled |-> FALSE, endpoint |-> ""]

OtlpPath == <<"v1", "org", "otlp">>

\* var resp struct { Data OTLPConfigResponse `json:"data"` }
ZeroOTLPConfigResponse ==
    [otlp_enabled |-> FALSE, otlp_endpoint |-> Nil, otlp_headers |-> NilMap,
     otlp_export_interval_seconds |-> Nil]

\* The remote API.  The organization always has a configuration; a PUT sets
\* the members it carries and an empty endpoint clears the endpoint.  The
\* GET answer carries the configuration as the data of the envelope, or
\* ("nested") as a data member of that data.
DefaultOtlp ==
    [otlp_enabled |-> FALSE, otlp_endpoint |-> Nil, otlp_headers |-> NilMap,
     otlp_export_interval_seconds |-> Ptr(60)]
PatchOtlp(stored, body) ==
    [otlp_enabled |-> body.enabled,
     otlp_endpoint |->
        IF "endpoint" \in DOMAIN body
        THEN (IF body.endpoint = "" THEN Nil ELSE Ptr(body.endpoint))
        ELSE stored.otlp_endpoint,
     otlp_headers |->
        IF "headers" \in DOMAIN body
        THEN [nil |-> FALSE, m |-> body.headers] ELSE stored.otlp_headers,
     otlp_export_interval_seconds |->
        IF "export_interval_seconds" \in DOMAIN body
        THEN Ptr(body.export_interval_seconds)
        ELSE stored.otlp_export_interval_seconds]
Shapes == {"standard", "nested"}
OtlpPayload(stored, shape) ==
    IF shape = "nested" THEN [data |-> stored] ELSE stored
ServeOtlp(call, remote, shape) ==
    IF call.method = "PUT"
    THEN LET stored == PatchOtlp(remote, call.body)
         IN  [http |-> Response(200, DataEnvelope(OtlpPayload(stored, shape))),
              remote |-> stored]
    ELSE [http |-> Response(200, DataEnvelope(OtlpPayload(remote, shape))),
          remote |-> remote]
RoundTripOtlp(call, fault, remote, shape) ==
    IF fault = Served THEN ServeOtlp(call, remote, shape)
    ELSE [http |-> Outcome(fault, Absent), remote |-> remote]

\* organizationOTLPResource.getOTLPConfig on the response received: the
\* data of the envelope is decoded into a struct whose one field is `data`.
getOTLPConfig(http) ==
    LET r == DoRequest(http)
    IN  IF r.err # Nil THEN [v |-> ZeroOTLPConfigResponse, err |-> r.err]
        ELSE LET resp == UnmarshalAPIResponse(r.data.v, [data |-> <<>>])
             IN  IF resp.err # Nil
                 THEN [v |-> ZeroOTLPConfigResponse, err |-> resp.err]
                 ELSE [v |-> JsonUnmarshalInto(resp.v.data, ZeroOTLPConfigResponse),
                       err |-> Nil]

IntOrNull(p) == IF p.nil THEN NullV ELSE Known(p.v)

\* "Map response to state" of Create: enabled and endpoint.
OtlpCreateState(plan, config) ==
    [plan EXCEPT
        !.enabled = Known(config.otlp_enabled),
        !.endpoint = StringOrNull(config.otlp_endpoint)]
\* ... of Read and Update: the export interval as well.
OtlpReadState(state, config) ==
    [state EXCEPT
        !.enabled = Known(config.otlp_enabled),
        !.endpoint = StringOrNull(config.otlp_endpoint),
        !.export_interval_seconds = IntOrNull(config.otlp_export_interval_seconds)]
\* ... of ImportState: a new model, headers left null.
OtlpImportedState(config) ==
    [enabled |-> Known(config.otlp_enabled),
     endpoint |-> StringOrNull(config.otlp_endpoint),
     headers |-> NullV,
     export_interval_seconds |-> IntOrNull(config.otlp_export_interval_seconds)]

\* The PUT and the GET that Create and Update make, in order, and the state
\* they return: `failed` names the diagnostic when a step fails.
OtlpApply(plan, put, get, remote, shape, readsInterval) ==
    LET headers == IF IsNull(plan.headers) THEN [err |-> FALSE, v |-> <<>>]
                   ELSE HeadersElementsAs(plan.headers)
    IN  IF headers.err
        THEN [failed |-> "Value Conversion Error", calls |-> <<>>, remote |-> remote,
              http |-> Absent, err |-> Nil, state |-> Absent]
        ELSE
        LET call == Call("PUT", OtlpPath, OtlpUpdateReq(plan, headers.v))
            rt == RoundTripOtlp(call, put, remote, shape)
            sent == DoRequest(rt.http)
        IN  IF sent.err # Nil
            THEN [failed |-> "set", calls |-> <<call>>, remote |-> rt.remote,
                  http |-> rt.http, err |-> sent.err, state |-> Absent]
            ELSE
            LET read == Call("GET", OtlpPath, Nil)
                rt2 == RoundTripOtlp(read, get, rt.remote, shape)
                config == getOTLPConfig(rt2.http)
            IN  IF config.err # Nil
                THEN [failed |-> "get", calls |-> <<call, read>>, remote |-> rt2.remote,
                      http |-> rt2.http, err |-> config.err, state |-> Absent]
                ELSE [failed |-> "", calls |-> <<call, read>>, remote |-> rt2.remote,
                      http |-> rt2.http, err |-> Nil,
                      state |-> IF readsInterval THEN OtlpReadState(plan, config.v)
                                ELSE OtlpCreateState(plan, config.v)]

OtlpDiag(op, failed) ==
    IF failed = "set" THEN
        (IF op = "Create" THEN "Error creating organization OTLP config"
         ELSE "Error updating organization OTLP config")
    ELSE IF failed = "get" THEN "Error reading organization OTLP config"
    ELSE failed

\* organizationOTLPResource.Create
OtlpCreate(cfg, put, get, shape) ==
    /\ otState = Absent
    /\ \E r \in {OtlpApply(cfg, put, get, otRemote, shape, FALSE)} :
          /\ otRemote' = r.remote
          /\ IF r.failed # ""
             THEN /\ otOp' = Op("Create", otOp.name, <<OtlpDiag("Create", r.failed)>>,
                                r.calls, cfg, r.http, r.err)
                  /\ UNCHANGED otState
             ELSE /\ otOp' = Op("Create", otOp.name, HostDiags(<<>>, r.state),
                                r.calls, cfg, r.http, Nil)
                  /\ otState' = HostStore(r.state)

\* organizationOTLPResource.Read
OtlpRead(fault, shape) ==
    /\ otState # Absent
    /\ \E call \in {Call("GET", OtlpPath, Nil)} :
       \E rt \in {RoundTripOtlp(call, fault, otRemote, shape)} :
       \E config \in {getOTLPConfig(rt.http)} :
          /\ otRemote' = rt.remote
          /\ IF config.err # Nil
             THEN /\ otOp' = Op("Read", otOp.name, <<"Error reading organization OTLP config">>,
                                <<call>>, Absent, rt.http, config.err)
                  /\ UNCHANGED otState
             ELSE \E new \in {OtlpReadState(otState, config.v)} :
                  /\ otOp' = Op("Read", otOp.name, HostDiags(<<>>, new),
                                <<call>>, Absent, rt.http, Nil)
                  /\ otState' = HostStore(new)

\* organizationOTLPResource.Update: the host plans it when the configuration
\* differs from the tracked state.
OtlpUpdate(cfg, put, get, shape) ==
    /\ otState # Absent
    /\ cfg # otState
    /\ \E r \in {OtlpApply(cfg, put, get, otRemote, shape, TRUE)} :
          /\ otRemote' = r.remote
          /\ IF r.failed # ""
             THEN /\ otOp' = Op("Update", otOp.name, <<OtlpDiag("Update", r.failed)>>,
                                r.calls, cfg, r.http, r.err)
                  /\ UNCHANGED otState
             ELSE /\ otOp' = Op("Update", otOp.name, HostDiags(<<>>, r.state),
                                r.calls, cfg, r.http, Nil)
                  /\ otState' = HostStore(r.state)

\* organizationOTLPResource.Delete: on success the host drops the instance.
OtlpDelete(fault) ==
    /\ otState # Absent
    /\ \E call \in {Call("PUT", OtlpPath, OtlpDeleteReq)} :
       \E rt \in {RoundTripOtlp(call, fault, otRemote, "standard")} :
       \E err \in {DoRequest(rt.http).err} :
          /\ otRemote' = rt.remote
          /\ IF err # Nil
             THEN /\ otOp' = Op("Delete", otOp.name, <<"Error deleting organization OTLP config">>,
                                <<call>>, Absent, rt.http, err)
                  /\ UNCHANGED otState
             ELSE /\ otOp' = Op("Delete", otOp.name, <<>>, <<call>>, Absent, rt.http, Nil)
                  /\ otState' = Absent

\* organizationOTLPResource.ImportState
OtlpImportState(fault, shape) ==
    /\ otState = Absent
    /\ \E call \in {Call("GET", OtlpPath, Nil)} :
       \E rt \in {RoundTripOtlp(call, fault, otRemote, shape)} :
       \E config \in {getOTLPConfig(rt.http)} :
          /\ otRemote' = rt.remote
          /\ IF config.err # Nil
             THEN /\ otOp' = Op("Import", otOp.name, <<"Error importing organization OTLP config">>,
                                <<call>>, Absent, rt.http, config.err)
                  /\ UNCHANGED otState
             ELSE /\ otOp' = Op("Import", otOp.name, <<>>, <<call>>, Absent, rt.http, Nil)
                  /\ otState' = OtlpImportedState(config.v)

-----------------------------------------------------------------------------
(* Concurrent operations on one Client: every handler of the provider holds *)
(* the same *Client and calls DoRequest on it, possibly at the same time.   *)

MaxProcs == 2
Procs == 1..MaxProcs

\* client.New(baseURL, apiKey) for a non-empty base URL.
New(baseURL, apiKey) == [BaseURL |-> baseURL, APIKey |-> apiKey]

ConcKeys == {<<"k">>, <<" ", "k", " ">>, BearerPrefix \o <<"k">>}
ConcCalls ==
    {Call("GET", "/v1/checks/chk-1", Nil),
     Call("POST", "/v1/checks", Ptr([name |-> "web"]))}
ConcOutcomes ==
    {TransportFailure,
     Response(200, Envelope(Ptr([id |-> "chk-1"]), Nil, "{\"data\":{\"id\":\"chk-1\"}}")),
     Response(404, NotFoundBody)}

\* A goroutine that is in no DoRequest.
IdleProc ==
    [pc |-> "idle", call |-> Absent, req |-> Absent, http |-> Absent,
     result |-> Absent]

\* A DoRequest that keeps the trimmed key in the Client for the next call.
DoRequestReceiverCachingKey(c, apiKey) == [c EXCEPT !.APIKey = apiKey]

\* The Client after DoRequest has read c.APIKey into apiKey: DoRequest
\* assigns to no field of its receiver.
DoRequestReceiver(c, apiKey) == c

\* DoRequest is entered with its arguments.
DoRequestBegin(p, call) ==
    /\ ccProc[p].pc = "idle"
    /\ ccProc' = [ccProc EXCEPT ![p] = [IdleProc EXCEPT !.pc = "new", !.call = call]]
    /\ UNCHANGED ccClient

\* http.NewRequest(method, c.BaseURL+path, reqBody)
DoRequestNewRequest(p) ==
    /\ ccProc[p].pc = "new"
    /\ ccProc' = [ccProc EXCEPT
          ![p].pc = "auth",
          ![p].req = [method |-> ccProc[p].call.method,
                      url    |-> <<ccClient.BaseURL, ccProc[p].call.path>>,
                      body   |-> ccProc[p].call.body,
                      header |-> NoHeader]]
    /\ UNCHANGED ccClient

\* apiKey := strings.TrimSpace(c.APIKey) and the three req.Header.Set
DoRequestSetHeaders(p) ==
    /\ ccProc[p].pc = "auth"
    /\ ccProc' = [ccProc EXCEPT
          ![p].pc = "do",
          ![p].req.header =
              HeaderSet(HeaderSet(SetAuthorization(ccProc[p].req.header,
                                                   ccClient.APIKey),
                                  "Content-Type", <<"application/json">>),
                        "User-Agent", <<"terraform-provider-quismon/1.0">>)]
    /\ ccClient' = DoRequestReceiver(ccClient, TrimSpace(ccClient.APIKey))

\* c.HTTPClient.Do(req) returns what the transport or the server answers.
DoRequestDo(p, http) ==
    /\ ccProc[p].pc = "do"
    /\ ccProc' = [ccProc EXCEPT ![p].pc = "read", ![p].http = http]
    /\ UNCHANGED ccClient

\* The body is read, the status examined and DoRequest returns.
DoRequestReturn(p) ==
    /\ ccProc[p].pc = "read"
    /\ ccProc' = [ccProc EXCEPT ![p].pc = "done",
                                ![p].result = DoRequest(ccProc[p].http)]
    /\ UNCHANGED ccClient

\* The caller takes the result; the goroutine may call again.
DoRequestDone(p) ==
    /\ ccProc[p].pc = "done"
    /\ ccProc' = [ccProc EXCEPT ![p] = IdleProc]
    /\ UNCHANGED ccClient

-----------------------------------------------------------------------------
(* Specifications.                                                          *)

IdleCheck == chkState = Absent /\ chkRemote = Absent /\ chkCfg = Absent /\ chkOp = NoOp
IdleAlert ==
    arState = Absent /\ arRemote = Absent /\ arOp = AlertNoOp /\ arPending = Absent
IdleSignup == suState = Absent /\ suRemote = {} /\ suOp = SignupNoOp
IdleImport == impId = <<>> /\ impResp = Absent
IdlePlan == pmReq = Absent /\ pmResp = Absent
IdleProvider == pvReq = Absent /\ pvResp = Absent
IdleStateFile == sfReq = Absent /\ sfResp = Absent
IdleClient == clReq = Absent /\ clResp = Absent
IdleChannel == ncState = Absent /\ ncRemote = Absent /\ ncOp = NoOp
IdleLookup == lkReq = Absent /\ lkResp = Absent
IdleRegion == rgReq = Absent /\ rgResp = Absent
IdleOtlp == otState = Absent /\ otRemote = Absent /\ otOp = NoOp
IdleConc == ccClient = Absent /\ ccProc = Absent
IdleAll ==
    /\ IdleCheck /\ IdleAlert /\ IdleSignup /\ IdleImport /\ IdlePlan
    /\ IdleProvider /\ IdleStateFile /\ IdleClient /\ IdleChannel
IdleRest == IdleLookup /\ IdleRegion /\ IdleOtlp /\ IdleConc

CheckFrame == UNCHANGED <<alertVars, signupVars, pureVars, channelVars, restVars>>

InitCheck ==
    /\ IdleCheck /\ IdleAlert /\ IdleSignup /\ IdleImport /\ IdlePlan
    /\ IdleProvider /\ IdleStateFile /\ IdleClient /\ IdleChannel /\ IdleRest

NextCheck ==
    \/ \E cfg \in CheckConfigs, fault \in Faults :
          CheckCreate(cfg, fault) /\ CheckFrame
    \/ \E fault \in Faults : CheckRead(fault) /\ CheckFrame
    \/ \E cfg \in CheckConfigs, fault \in Faults :
          CheckUpdate(cfg, fault) /\ CheckFrame
    \/ \E fault \in Faults : CheckDelete(fault) /\ CheckFrame
    \/ \E facts \in ServerFacts : ServerProbe(facts) /\ CheckFrame
    \/ ServerExpire /\ CheckFrame

SpecCheck == InitCheck /\ [][NextCheck]_vars

\* The life of a check that is created, forgotten and imported again.
NextCheckImport ==
    \/ \E cfg \in CheckConfigs, fault \in Faults :
          chkRemote = Absent /\ CheckCreate(cfg, fault) /\ CheckFrame
    \/ \E fault \in Faults : CheckRead(fault) /\ CheckFrame
    \/ CheckForget /\ CheckFrame
    \/ \E id \in CheckImportIds : CheckImportState(id) /\ CheckFrame
    \/ \E facts \in ServerFacts : ServerProbe(facts) /\ CheckFrame

SpecCheckImport == InitCheck /\ [][NextCheckImport]_vars

AlertFrame == UNCHANGED <<checkVars, signupVars, pureVars, channelVars, restVars>>

InitAlert == InitCheck

NextAlert ==
    \/ \E cfg \in AlertConfigs, fault \in Faults :
          AlertCreate(cfg, fault) /\ AlertFrame
    \/ \E fault \in Faults : AlertRead(fault) /\ AlertFrame
    \/ \E cfg \in AlertConfigs, fault \in Faults :
          AlertUpdate(cfg, fault) /\ AlertFrame
    \/ \E fault \in Faults : AlertDelete(fault) /\ AlertFrame
    \/ \E cfg \in AlertConfigs, fault \in Faults :
          AlertReplaceDelete(cfg, fault) /\ AlertFrame
    \/ \E fault \in Faults : AlertReplaceCreate(fault) /\ AlertFrame
    \/ AlertRemoteToggle /\ AlertFrame

SpecAlert == InitAlert /\ [][NextAlert]_vars

SignupFrame == UNCHANGED <<checkVars, alertVars, pureVars, channelVars, restVars>>

InitSignup == InitCheck

NextSignup ==
    \/ \E cfg \in SignupConfigs, baseURL \in BaseURLs, fault \in Faults,
          verify \in BOOLEAN :
          SignupCreate(cfg, baseURL, fault, verify) /\ SignupFrame
    \/ SignupRead /\ SignupFrame
    \/ \E cfg \in SignupConfigs : SignupUpdate(cfg) /\ SignupFrame
    \/ SignupDelete /\ SignupFrame

SpecSignup == InitSignup /\ [][NextSignup]_vars

InitImport == InitCheck

NextImport ==
    \E id \in ImportIds :
        /\ AlertImportState(id)
        /\ UNCHANGED <<checkVars, alertVars, signupVars, planVars,
                       providerVars, stateFileVars, clientVars,
                   channelVars, restVars>>

SpecImport == InitImport /\ [][NextImport]_vars

InitPlanMod == InitCheck

NextPlanMod ==
    \E planValue \in PlanInt64s, stateValue \in StateInt64s :
        /\ ModifyPlan(planValue, stateValue)
        /\ UNCHANGED <<checkVars, alertVars, signupVars, importVars,
                       providerVars, stateFileVars, clientVars,
                   channelVars, restVars>>

SpecPlanMod == InitPlanMod /\ [][NextPlanMod]_vars

InitStateFile ==
    /\ IdleCheck /\ IdleAlert /\ IdleSignup /\ IdleImport /\ IdlePlan
    /\ IdleProvider /\ IdleClient /\ IdleChannel /\ IdleRest
    /\ sfReq \in Directories(MaxResources, MaxInstances)
    /\ sfResp = Absent

NextStateFile ==
    /\ ReadKeyFromState
    /\ UNCHANGED <<checkVars, alertVars, signupVars, importVars, planVars,
                   providerVars, clientVars,
                   channelVars, restVars>>

SpecStateFile == InitStateFile /\ [][NextStateFile]_vars

NextProvider ==
    \E config \in ProviderConfigs, env \in Environments, dir \in ProviderDirectories :
        /\ ProviderConfigure(config, env, dir)
        /\ UNCHANGED <<checkVars, alertVars, signupVars, importVars, planVars,
                       stateFileVars, clientVars,
                   channelVars, restVars>>

SpecProvider == InitCheck /\ [][NextProvider]_vars

InitClient ==
    /\ clReq \in ClientRequests
    /\ clResp = Absent
    /\ IdleCheck /\ IdleAlert /\ IdleSignup /\ IdleImport /\ IdlePlan
    /\ IdleProvider /\ IdleStateFile /\ IdleChannel /\ IdleRest

NextClient ==
    /\ ClientDoRequest
    /\ UNCHANGED <<checkVars, alertVars, signupVars, importVars, planVars,
                   providerVars, stateFileVars,
                   channelVars, restVars>>

SpecClient == InitClient /\ [][NextClient]_vars

ChannelFrame == UNCHANGED <<checkVars, alertVars, signupVars, pureVars, restVars>>

NextChannel ==
    \/ \E cfg \in ChannelConfigs, fault \in Faults, redact \in BOOLEAN :
          ncRemote = Absent /\ ChannelCreate(cfg, fault, redact) /\ ChannelFrame
    \/ \E fault \in Faults, redact \in BOOLEAN :
          ChannelRead(fault, redact) /\ ChannelFrame
    \/ \E cfg \in ChannelConfigs, fault \in Faults, redact \in BOOLEAN :
          ChannelUpdate(cfg, fault, redact) /\ ChannelFrame
    \/ \E fault \in Faults : ChannelDelete(fault) /\ ChannelFrame
    \/ \E id \in ChannelImportIds : ChannelImportState(id) /\ ChannelFrame
    \/ ChannelForget /\ ChannelFrame
    \/ \E edit \in ChannelEdits : ServerEditChannel(edit) /\ ChannelFrame

SpecChannel == InitCheck /\ [][NextChannel]_vars

InitLookup ==
    /\ lkReq \in LookupRequests
    /\ lkResp = Absent
    /\ IdleAll /\ IdleRegion /\ IdleOtlp /\ IdleConc

NextLookup ==
    /\ LookupByName
    /\ UNCHANGED <<checkVars, alertVars, signupVars, pureVars, channelVars,
                   regionVars, otlpVars, concVars>>

SpecLookup == InitLookup /\ [][NextLookup]_vars

InitRegion ==
    /\ rgReq \in [code : RegionInputs]
    /\ rgResp = Absent
    /\ IdleAll /\ IdleLookup /\ IdleOtlp /\ IdleConc

NextRegion ==
    /\ ValidateRegionCall
    /\ UNCHANGED <<checkVars, alertVars, signupVars, pureVars, channelVars,
                   lookupVars, otlpVars, concVars>>

SpecRegion == InitRegion /\ [][NextRegion]_vars

OtlpFrame == UNCHANGED <<checkVars, alertVars, signupVars, pureVars, channelVars,
                         lookupVars, regionVars, concVars>>

InitOtlp ==
    /\ otState = Absent /\ otRemote = DefaultOtlp /\ otOp = NoOp
    /\ IdleAll /\ IdleLookup /\ IdleRegion /\ IdleConc

NextOtlp ==
    \/ \E cfg \in OtlpConfigs, put \in Faults, get \in Faults, shape \in Shapes :
          OtlpCreate(cfg, put, get, shape) /\ OtlpFrame
    \/ \E fault \in Faults, shape \in Shapes : OtlpRead(fault, shape) /\ OtlpFrame
    \/ \E cfg \in OtlpConfigs, put \in Faults, get \in Faults, shape \in Shapes :
          OtlpUpdate(cfg, put, get, shape) /\ OtlpFrame
    \/ \E fault \in Faults : OtlpDelete(fault) /\ OtlpFrame
    \/ \E fault \in Faults, shape \in Shapes : OtlpImportState(fault, shape) /\ OtlpFrame

SpecOtlp == InitOtlp /\ [][NextOtlp]_vars

ConcFrame == UNCHANGED <<checkVars, alertVars, signupVars, pureVars, channelVars,
                         lookupVars, regionVars, otlpVars>>

InitConc ==
    /\ ccClient \in {New(ClientBaseURL, k) : k \in ConcKeys}
    /\ ccProc = [p \in Procs |-> IdleProc]
    /\ IdleAll /\ IdleLookup /\ IdleRegion /\ IdleOtlp

NextConc ==
    \/ \E p \in Procs, call \in ConcCalls : DoRequestBegin(p, call) /\ ConcFrame
    \/ \E p \in Procs : DoRequestNewRequest(p) /\ ConcFrame
    \/ \E p \in Procs : DoRequestSetHeaders(p) /\ ConcFrame
    \/ \E p \in Procs, http \in ConcOutcomes : DoRequestDo(p, http) /\ ConcFrame
    \/ \E p \in Procs : DoRequestReturn(p) /\ ConcFrame
    \/ \E p \in Procs : DoRequestDone(p) /\ ConcFrame

SpecConc == InitConc /\ [][NextConc]_vars

\* Create and Update of the four resources whose handlers build a request
\* body before sending it; one resource is exercised per behaviour.
ApplyCheckConfigs ==
    CheckConfigs
    \cup {[BaseBasics EXCEPT !.regions = Known(<<"us-east-1", NullElem>>)]
             @@ BaseSource}
ApplyAlertConfigs ==
    AlertConfigs
    \cup {[check_id |-> Known("chk-1"), name |-> Known("down"),
           enabled |-> Known(TRUE),
           condition |-> Known([health_status |-> Known("down")]),
           notification_channel_ids |-> Known(<<"nc-1", NullElem>>)]}

InitApply == InitCheck \/ InitOtlp

NextApply ==
    \/ \E cfg \in ApplyCheckConfigs, fault \in Faults :
          /\ IdleAlert /\ IdleChannel /\ IdleOtlp
          /\ CheckCreate(cfg, fault) /\ CheckFrame
    \/ \E cfg \in ApplyCheckConfigs, fault \in Faults :
          CheckUpdate(cfg, fault) /\ CheckFrame
    \/ \E cfg \in ApplyAlertConfigs, fault \in Faults :
          /\ IdleCheck /\ IdleChannel /\ IdleOtlp
          /\ AlertCreate(cfg, fault) /\ AlertFrame
    \/ \E cfg \in ApplyAlertConfigs, fault \in Faults :
          AlertUpdate(cfg, fault) /\ AlertFrame
    \/ \E cfg \in ChannelConfigs, fault \in Faults, redact \in BOOLEAN :
          /\ IdleCheck /\ IdleAlert /\ IdleOtlp
          /\ ncRemote = Absent /\ ChannelCreate(cfg, fault, redact) /\ ChannelFrame
    \/ \E cfg \in ChannelConfigs, fault \in Faults, redact \in BOOLEAN :
          ChannelUpdate(cfg, fault, redact) /\ ChannelFrame
    \/ \E cfg \in OtlpConfigs, put \in Faults, get \in Faults, shape \in Shapes :
          otRemote # Absent /\ OtlpCreate(cfg, put, get, shape) /\ OtlpFrame
    \/ \E cfg \in OtlpConfigs, put \in Faults, get \in Faults, shape \in Shapes :
          OtlpUpdate(cfg, put, get, shape) /\ OtlpFrame

SpecApply == InitApply /\ [][NextApply]_vars

-----------------------------------------------------------------------------
(* Properties of quismon_check (SpecCheck).                                 *)

\* The plan's config_json is set: neither null nor the empty string.
HasConfigJSON(plan) ==
    ~IsNull(plan.config_json) /\ plan.config_json # Known(EmptyText)
\* The last operation sent a request, and this is its body.
SentBody == chkOp.calls[1].body

\* C1: in Create and Update, a request made for a plan whose config_json is
\* set carries the map decoded from config_json, whatever the config map
\* attribute holds; the config map (coerced to strings) is carried only when
\* config_json is null or empty.
C1_ConfigJsonTakesPrecedence ==
    (chkOp.name \in {"Create", "Update"} /\ chkOp.calls # <<>>) =>
        IF HasConfigJSON(chkOp.plan)
        THEN /\ JsonUnmarshalMap(chkOp.plan.config_json.value).err = "none"
             /\ SentBody.config = JsonUnmarshalMap(chkOp.plan.config_json.value).out
        ELSE ~IsNull(chkOp.plan.config) =>
                SentBody.config = CoerceMap(chkOp.plan.config)

\* C1, witness: an Update whose plan holds the JSON text
\* {"url":"https://x","method":"GET"} and a non-empty config map, and whose
\* request carries the map of the text.
C1_Witness ==
    /\ chkOp.name = "Update"
    /\ chkOp.calls # <<>>
    /\ chkOp.plan.config_json = Known(JsonObject)
    /\ chkOp.plan.config = Known([url |-> Known("https://m")])
    /\ SentBody.config = [nil |-> FALSE, m |-> [url |-> "https://x", method |-> "GET"]]

\* The plan names no usable configuration source.
NoSource(plan) == IsNull(plan.config) /\ ~HasConfigJSON(plan)
InvalidJSON(plan) ==
    HasConfigJSON(plan) /\ JsonUnmarshalMap(plan.config_json.value).err = "syntax"

\* C2: a Create whose plan has neither config nor config_json, or whose
\* config_json is not valid JSON, ends with an error diagnostic, has made no
\* API call and leaves no tracked state.
C2_CreateRejectsBadSource ==
    (chkOp.name = "Create" /\ (NoSource(chkOp.plan) \/ InvalidJSON(chkOp.plan))) =>
        /\ chkOp.diags \in {<<"Missing Configuration">>, <<"Error Parsing config_json">>}
        /\ chkOp.calls = <<>>
        /\ chkState = Absent
        /\ chkRemote = Absent

\* C2, witness: a Create refused for a config_json that does not parse, with
\* a config map present beside it.
C2_Witness ==
    /\ chkOp.name = "Create"
    /\ chkOp.plan.config_json = Known(JsonTruncated)
    /\ ~IsNull(chkOp.plan.config)
    /\ chkOp.diags = <<"Error Parsing config_json">>

\* The last operation was a Read that the API answered with status 404.
ReadGot404 ==
    /\ chkOp.name = "Read"
    /\ chkOp.http # Absent
    /\ chkOp.http.kind = "response"
    /\ chkOp.http.status = 404

\* C7: the error a Read receives for a 404 is of another kind than the error
\* produced for the other statuses of 400 and above.
C7_NotFoundIsDistinct ==
    ReadGot404 =>
        \A status \in {400, 401, 403, 500, 503} :
            chkOp.err.type # DoRequest(Response(status, chkOp.http.body)).err.type

\* C10: after a successful Create and a Read straight after it, the tracked
\* name, type, interval_seconds, regions (in order) and enabled are the
\* declared ones (an omitted regions or enabled being its schema default).
C10_CreateThenReadKeepsDeclared ==
    (chkOp.name = "Read" /\ chkOp.after = "Create" /\ chkOp.err = Nil) =>
        /\ chkState.name = chkCfg.name
        /\ chkState.type = chkCfg.type
        /\ chkState.interval_seconds = chkCfg.interval_seconds
        /\ chkState.regions = WithDefault(chkCfg.regions, DefaultRegions)
        /\ chkState.enabled = WithDefault(chkCfg.enabled, TRUE)

\* C10, witness: such a Read for a check declared with two regions and
\* enabled = false, both found again in the tracked state.
C10_Witness ==
    /\ chkOp.name = "Read"
    /\ chkOp.after = "Create"
    /\ chkOp.err = Nil
    /\ chkCfg.regions = Known(<<"na-east-ewr", "us-east-1">>)
    /\ chkState.regions = Known(<<"na-east-ewr", "us-east-1">>)
    /\ chkState.enabled = Known(FALSE)
    /\ chkState.name = Known("web")

-----------------------------------------------------------------------------
(* Properties of quismon_alert_rule (SpecAlert).                            *)

\* The last operation was an Update that sent its request.
AlertUpdateSent == arOp.name = "Update" /\ arOp.calls # <<>>
AlertBody == arOp.calls[1].body

\* C3: the body of an alert rule Update holds name, condition,
\* notification_channel_ids and enabled exactly where the plan's value differs
\* from the prior state's, each with the plan's value, and nothing else.
C3_UpdateSendsExactlyTheChanges ==
    AlertUpdateSent =>
        LET P == arOp.plan
            S == arOp.state
            B == AlertBody
        IN  /\ DOMAIN B \subseteq
                 {"name", "condition", "notification_channel_ids", "enabled"}
            /\ \A f \in {"name", "condition", "notification_channel_ids", "enabled"} :
                  (f \in DOMAIN B) <=> (P[f] # S[f])
            /\ "name" \in DOMAIN B => P.name = Known(B.name)
            /\ "condition" \in DOMAIN B => CoerceMap(P.condition) = B.condition
            /\ "notification_channel_ids" \in DOMAIN B =>
                  P.notification_channel_ids = Known(B.notification_channel_ids)
            /\ "enabled" \in DOMAIN B => P.enabled = Known(B.enabled)

\* C3 restricted to the three required attributes, which are always known.
AlertRequiredFieldsSparse ==
    AlertUpdateSent =>
        \A f \in {"name", "condition", "notification_channel_ids"} :
            (f \in DOMAIN AlertBody) <=> (arOp.plan[f] # arOp.state[f])

\* The tracked state an operation started from: the state its handler was
\* given or, inside a replacement, the state being replaced.
AlertPrior ==
    IF arOp.replaced # Absent THEN arOp.replaced.state ELSE arOp.state

\* The two calls of the replacement of `prior` by a rule for `plan`.
ReplacementCalls(prior, plan) ==
    <<Call("DELETE",
           AlertPathOf(ValueString(prior.check_id), ValueString(prior.id)), Nil),
      Call("POST", AlertPath(ValueString(plan.check_id)),
           CreateAlertRuleRequest(plan, CoerceMap(plan.condition),
                                  ElementsAs(plan.notification_channel_ids).v))>>

\* C4: an operation for a plan whose check_id differs from the tracked one is
\* part of a replacement, never an Update: the plan requires replacement, and
\* the calls made are the delete of the rule under the old check_id and then,
\* once the delete is done, the create under the new check_id.
C4_CheckIdChangeReplaces ==
    (arOp.plan # Absent /\ AlertPrior # Absent
       /\ arOp.plan.check_id # AlertPrior.check_id) =>
        /\ arOp.name \in {"Delete", "Create"}
        /\ arOp.replaced # Absent
        /\ AlertRequiresReplace(arOp.plan, AlertPrior)
        /\ arOp.replaced.calls =
              SubSeq(ReplacementCalls(AlertPrior, arOp.plan), 1,
                     IF arOp.name = "Delete" THEN 1 ELSE 2)
        /\ \A i \in 1..Len(arOp.replaced.calls) :
              arOp.replaced.calls[i].method # "PUT"

\* C4, witness: the rule ar-1 of chk-1 has been replaced by a rule of chk-2,
\* by a DELETE under chk-1 and a POST under chk-2.
C4_Witness ==
    /\ arOp.name = "Create"
    /\ arOp.err = Nil
    /\ arOp.replaced # Absent
    /\ arOp.replaced.state.check_id = Known("chk-1")
    /\ arOp.plan.check_id = Known("chk-2")
    /\ Len(arOp.replaced.calls) = 2
    /\ arOp.replaced.calls[1].path = AlertPathOf("chk-1", "ar-1")
    /\ arOp.replaced.calls[2].path = AlertPath("chk-2")
    /\ arState.check_id = Known("chk-2")
    /\ arRemote.check_id = "chk-2"

-----------------------------------------------------------------------------
(* Properties of ImportState (SpecImport) and of the plan modifier          *)
(* (SpecPlanMod).                                                           *)

\* The positions of the colons of the identifier last imported.
Colons == {i \in 1..Len(impId) : impId[i] = ":"}

PositivePlan == IsKnown(pmReq.PlanValue) /\ pmReq.PlanValue.value > 0

\* C6: the modifier answers with the planned value when it is positive, with
\* the state value when the planned value is not positive (null included) and
\* the state value is not null, and with the planned value, as it is, when the
\* state value is null.
C6_ExpiresKeptFromState ==
    pmReq # Absent =>
        /\ PositivePlan => pmResp.PlanValue = pmReq.PlanValue
        /\ (~PositivePlan /\ ~IsNull(pmReq.StateValue)) =>
              pmResp.PlanValue = pmReq.StateValue
        /\ IsNull(pmReq.StateValue) => pmResp.PlanValue = pmReq.PlanValue

\* C6, witness: a planned 0 over a state of 3600 answers 3600.
C6_Witness ==
    /\ pmReq # Absent
    /\ pmReq.PlanValue = Known(0)
    /\ pmReq.StateValue = Known(3600)
    /\ pmResp.PlanValue = Known(3600)

-----------------------------------------------------------------------------
(* Properties of quismon_signup (SpecSignup).                               *)

\* C8: a signup Delete makes no call and reports no error, whatever the state
\* it is given, and the organizations that exist remotely are the ones that
\* existed before it.
C8_SignupDeleteIsLocal ==
    suOp.name = "Delete" =>
        /\ suOp.calls = <<>>
        /\ suOp.diags = <<>>
        /\ suOp.err = Nil
        /\ suRemote = suOp.orgs

\* C8, witness: a Delete of a signup whose organization still exists remotely.
C8_Witness ==
    /\ suOp.name = "Delete"
    /\ suState = Absent
    /\ suOp.state.org_id = Known(1)
    /\ \E o \in suRemote : o.org_id = 1

\* C9: a signup Read or Update makes no call, and org_id, api_key and
\* verification_required of the tracked state are what they were before it.
C9_SignupReadUpdateKeepCredentials ==
    suOp.name \in {"Read", "Update"} =>
        /\ suOp.calls = <<>>
        /\ suState.org_id = suOp.state.org_id
        /\ suState.api_key = suOp.state.api_key
        /\ suState.verification_required = suOp.state.verification_required

\* C9 for Read alone.
SignupReadKeepsState ==
    suOp.name = "Read" => (suOp.calls = <<>> /\ suState = suOp.state)

-----------------------------------------------------------------------------
(* Properties of the import of a check (SpecCheckImport).                   *)

\* The state that Create for cfg and a Read straight after it leave for the
\* check the service stores as `stored`.
CreateThenRead(cfg, stored) ==
    LET check == JsonUnmarshalInto(CheckPayload(stored), ZeroCheck)
        created == HostStore(CreateState(PlanCheck(cfg, Absent), check))
    IN  HostStore(ReadState(created, check))

\* The last operation was a successful Read straight after ImportState.
ReadAfterImport ==
    chkOp.name = "Read" /\ chkOp.after = "Import" /\ chkOp.err = Nil

\* C11: after ImportState and a Read, the tracked state is the state that
\* Create and a Read leave for the same check, every attribute included.
C11_ImportThenReadEqualsCreateThenRead ==
    ReadAfterImport => chkState = CreateThenRead(chkCfg, chkRemote)

\* C11 for the attributes Read assigns, and for id.
ImportThenReadAgreesOnRefreshed ==
    ReadAfterImport =>
        \A a \in CheckAttributes \ {"regions", "config", "config_json", "iac_locked"} :
            chkState[a] = CreateThenRead(chkCfg, chkRemote)[a]

-----------------------------------------------------------------------------
(* Properties of quismon_check Update (SpecCheck).                          *)

\* The last operation was an Update that sent its request.
CheckUpdateSent == chkOp.name = "Update" /\ chkOp.calls # <<>>

\* C12: an Update ends as a Create for the same config and config_json ends:
\* with Create's configuration error and no call where Create refuses the
\* sources, with Create's config map in its request otherwise.
C12_UpdateResolvesAsCreate ==
    chkOp.name = "Update" =>
        LET create == ResolveConfigCreate(chkOp.plan)
        IN  IF create.diag # ""
            THEN chkOp.calls = <<>> /\ chkOp.diags = <<create.diag>>
            ELSE chkOp.calls # <<>> /\ SentBody.config = create.configMap

\* C12 for the plans that name a source: Update and Create agree there.
UpdateResolvesAsCreateWithSource ==
    (chkOp.name = "Update" /\ ~NoSource(chkOp.plan)) =>
        LET create == ResolveConfigCreate(chkOp.plan)
        IN  IF create.diag # ""
            THEN chkOp.calls = <<>> /\ chkOp.diags = <<create.diag>>
            ELSE chkOp.calls # <<>> /\ SentBody.config = create.configMap

\* The mutable fields of a check, and those Update assigns in its request.
MutableFields ==
    {"name", "type", "config", "interval_seconds", "regions", "enabled",
     "simultaneous_regions", "recheck_on_failure", "inverted",
     "expires_after_seconds"}
AssignedFields == MutableFields \ {"inverted", "expires_after_seconds"}

\* C13: the body of every Update request holds every mutable field of the
\* check, inverted and expires_after_seconds included.
C13_UpdateCarriesEveryMutableField ==
    CheckUpdateSent => MutableFields \subseteq DOMAIN SentBody

\* C13 for the eight fields Update assigns: always present, changed or not.
UpdateCarriesAssignedFields ==
    CheckUpdateSent => DOMAIN SentBody = AssignedFields

-----------------------------------------------------------------------------
(* Properties of the state-file fallback (SpecStateFile).                   *)

\* The instances of the quismon_signup resources of a state, in file order.
RECURSIVE SignupInstances(_)
SignupInstances(resources) ==
    IF resources = <<>> THEN <<>>
    ELSE (IF Head(resources).type = "quismon_signup"
          THEN Head(resources).instances ELSE <<>>)
         \o SignupInstances(Tail(resources))

CarriesKey(attrs) ==
    "api_key" \in DOMAIN attrs /\ attrs.api_key[1] = "s" /\ attrs.api_key[2] # ""

\* The state file that was read held a state.
ReadAState ==
    /\ sfResp # Absent
    /\ findStateFile(sfReq) # ""
    /\ sfReq[findStateFile(sfReq)].kind = "state"

\* C16: the fallback returns the api_key of the first signup instance, over
\* the resources and their instances in file order, that carries a non-empty
\* string api_key, and no key only when no signup instance carries one.
C16_FirstSignupInstanceWithKey ==
    ReadAState =>
        LET all == SignupInstances(sfReq[findStateFile(sfReq)].resources)
            with == {i \in 1..Len(all) : CarriesKey(all[i])}
        IN  IF with = {} THEN sfResp.apiKey = ""
            ELSE sfResp.apiKey =
                    all[CHOOSE i \in with : \A j \in with : i <= j].api_key[2]

\* C16 for the states whose signup resources have one instance at most.
FirstSignupResourceWithKey ==
    (ReadAState /\ \A i \in 1..Len(sfReq[findStateFile(sfReq)].resources) :
                      Len(sfReq[findStateFile(sfReq)].resources[i].instances) <= 1) =>
        LET all == SignupInstances(sfReq[findStateFile(sfReq)].resources)
            with == {i \in 1..Len(all) : CarriesKey(all[i])}
        IN  IF with = {} THEN sfResp.apiKey = ""
            ELSE sfResp.apiKey =
                    all[CHOOSE i \in with : \A j \in with : i <= j].api_key[2]

-----------------------------------------------------------------------------
(* Properties of quismonProvider.Configure (SpecProvider).                  *)

\* Configure was given known values and has built a client.
Configured == pvResp # Absent /\ pvResp.client # Absent
StateKey == readAPIKeyFromState(pvReq.dir).apiKey

\* C14: the client's key is the provider block's api_key when the block has
\* one, else the environment's when it has one, else the state file's; the
\* environment's is not used beside a configured key, nor the state file's
\* beside a configured or an environment key.
C14_KeyPrecedence ==
    Configured =>
        /\ pvResp.client.APIKey =
              IF ~IsNull(pvReq.config.api_key) THEN pvReq.config.api_key.value
              ELSE IF pvReq.env.QUISMON_API_KEY # "" THEN pvReq.env.QUISMON_API_KEY
              ELSE StateKey
        /\ (~IsNull(pvReq.config.api_key) \/ pvReq.env.QUISMON_API_KEY # "") =>
              (StateKey # "" => pvResp.client.APIKey # StateKey)

\* C14 for every provider block but the one that sets api_key = "".
KeyPrecedenceForNonEmptyKeys ==
    (Configured /\ pvReq.config.api_key # Known("")) =>
        pvResp.client.APIKey =
            IF ~IsNull(pvReq.config.api_key) THEN pvReq.config.api_key.value
            ELSE IF pvReq.env.QUISMON_API_KEY # "" THEN pvReq.env.QUISMON_API_KEY
            ELSE StateKey

\* The client's key is the state file's: not the provider block's and not
\* the environment's.
KeyTakenFromState ==
    /\ pvResp.client.APIKey # ""
    /\ pvResp.client.APIKey = StateKey
    /\ pvResp.client.APIKey # ValueString(pvReq.config.api_key)
    /\ pvResp.client.APIKey # pvReq.env.QUISMON_API_KEY

\* C15: for known configuration values Configure ends without an error and
\* with a client; it warns that the key was read from the Terraform state
\* exactly when the client's key is the state file's.
C15_StateKeyWarnsOnly ==
    (pvResp # Absent /\ pvReq.config.api_key # UnknownV
       /\ pvReq.config.base_url # UnknownV) =>
        /\ pvResp.errors = <<>>
        /\ pvResp.client # Absent
        /\ IF KeyTakenFromState
           THEN pvResp.warnings = <<"API Key Read from Terraform State">>
           ELSE pvResp.warnings = <<>>

\* C15, witness: no key in the provider block or the environment, a signup
\* with key k1 in terraform.tfstate: a warning, no error, a client with k1.
C15_Witness ==
    /\ pvResp # Absent
    /\ IsNull(pvReq.config.api_key)
    /\ pvReq.env.QUISMON_API_KEY = ""
    /\ pvResp.client # Absent
    /\ pvResp.client.APIKey = "k1"
    /\ pvResp.warnings = <<"API Key Read from Terraform State">>
    /\ pvResp.errors = <<>>

-----------------------------------------------------------------------------
(* Properties of Client.DoRequest (SpecClient).                             *)

\* The call has returned.
Returned == clResp # Absent
\* The trimmed key of the client and the header of the request it sent.
TrimmedKey == TrimSpace(clReq.client.APIKey)
SentHeader == clResp.sent[1].header
HasAuthorization == "Authorization" \in DOMAIN SentHeader
\* "Bearer Bearer "
DoublePrefix == BearerPrefix \o BearerPrefix

\* How DoRequest forms the Authorization header from the trimmed key.
AuthorizationFromTrimmedKey ==
    /\ TrimmedKey = <<>> => ~HasAuthorization
    /\ TrimmedKey # <<>> /\ ~HasPrefix(TrimmedKey, BearerPrefix) =>
          HasAuthorization /\ SentHeader["Authorization"] = BearerPrefix \o TrimmedKey
    /\ HasPrefix(TrimmedKey, BearerPrefix) =>
          HasAuthorization /\ SentHeader["Authorization"] = TrimmedKey

\* C17 as stated: the Authorization header is "Bearer " and the trimmed key,
\* or the trimmed key itself when that starts with "Bearer ", the header
\* never starts with "Bearer Bearer ", and an empty trimmed key sends none.
C17_AuthorizationHeader ==
    Returned =>
        /\ AuthorizationFromTrimmedKey
        /\ HasAuthorization => ~HasPrefix(SentHeader["Authorization"], DoublePrefix)

\* C17, amended: the same forming of the header, and the header starts with
\* "Bearer Bearer " only when the trimmed key itself does.
C17_AuthorizationHeaderAmended ==
    Returned =>
        /\ AuthorizationFromTrimmedKey
        /\ (HasAuthorization /\ ~HasPrefix(TrimmedKey, DoublePrefix)) =>
              ~HasPrefix(SentHeader["Authorization"], DoublePrefix)

\* A key with white space around an already prefixed token went out as the
\* trimmed key, without a second prefix.
C17_Witness ==
    /\ Returned
    /\ clReq.client.APIKey # TrimmedKey
    /\ HasPrefix(TrimmedKey, BearerPrefix)
    /\ ~HasPrefix(TrimmedKey, DoublePrefix)
    /\ HasAuthorization /\ SentHeader["Authorization"] = TrimmedKey

\* C18: below status 400 DoRequest returns the raw body and no error; at 400
\* and above it returns no data and an error with the status code, whose
\* message is the envelope's error string when the body is an envelope with
\* a non-null error and the raw body text otherwise.
C18_StatusDecidesResult ==
    (Returned /\ clReq.http.kind = "response") =>
        /\ clReq.http.status < 400 =>
              /\ clResp.result.data = Ptr(clReq.http.body)
              /\ clResp.result.err = Nil
        /\ clReq.http.status >= 400 =>
              /\ clResp.result.data = Nil
              /\ clResp.result.err # Nil
              /\ clResp.result.err.status = clReq.http.status
              /\ clResp.result.err.message =
                    IF clReq.http.body.valid /\ ~clReq.http.body.error.nil
                    THEN clReq.http.body.error.v
                    ELSE clReq.http.body.text

\* A 404 with an error envelope came back as an error with that message.
C18_Witness ==
    /\ Returned
    /\ clReq.http.kind = "response"
    /\ clReq.http.status = 404
    /\ clReq.http.body.valid /\ ~clReq.http.body.error.nil
    /\ clResp.result.data = Nil
    /\ clResp.result.err.message = "not found"

\* The transport failed or the server answered 400 or above.
CallFailed ==
    clReq.http.kind = "transport" \/ clReq.http.status >= 400

\* C19: a call sends exactly one request; after a transport failure or a
\* status of 400 or above it returns the error and sends nothing more.
C19_SingleAttempt ==
    Returned =>
        /\ Len(clResp.sent) = 1
        /\ CallFailed => clResp.result.err # Nil /\ clResp.result.data = Nil

\* A call whose transport failed returned the error after its one request.
C19_Witness ==
    /\ Returned
    /\ clReq.http.kind = "transport"
    /\ Len(clResp.sent) = 1
    /\ clResp.result.err = TransportErrorf

-----------------------------------------------------------------------------
(* Properties of quismon_notification_channel (SpecChannel).                *)

\* The channel the client decoded from the response of the operation.
ChannelGot(op) == ClientChannel(op.http).v

-----------------------------------------------------------------------------
(* Properties of the lookups by name (SpecLookup).                          *)

\* The listing succeeded, and these are the elements it listed.
Listed ==
    /\ lkReq.http.kind = "response"
    /\ lkReq.http.status < 400
    /\ lkReq.http.body.valid
    /\ lkReq.http.body.error.nil
ListedItems ==
    IF lkReq.http.body.data.nil THEN <<>> ELSE lkReq.http.body.data.v
\* The positions of the elements with the requested name.
Matches == {i \in DOMAIN ListedItems : ListedItems[i].name = lkReq.name}
FirstMatch == CHOOSE i \in Matches : \A j \in Matches : i <= j
NotFoundFormats ==
    {"check not found: %s", "notification channel not found: %s"}

\* C22: a lookup by name returns the first listed element whose name equals
\* the requested name; with no such element (or an empty collection) it
\* returns a not-found error, and when the listing fails it returns the
\* listing error and no result.
C22_LookupReturnsFirstExactMatch ==
    lkResp # Absent =>
        /\ (Listed /\ Matches # {}) =>
              /\ lkResp.err = Nil
              /\ ~lkResp.v.nil
              /\ lkResp.v.v.id = ListedItems[FirstMatch].id
              /\ lkResp.v.v.name = lkReq.name
        /\ (Listed /\ Matches = {}) =>
              /\ lkResp.v = Nil
              /\ lkResp.err # Nil
              /\ lkResp.err.format \in NotFoundFormats
              /\ lkResp.err.name = lkReq.name
        /\ ~Listed =>
              /\ lkResp.v = Nil
              /\ lkResp.err # Nil
              /\ lkResp.err.format \notin NotFoundFormats
              /\ lkReq.http.kind = "transport" => lkResp.err = TransportErrorf

\* Two listed elements carry the requested name, one of another case comes
\* before them, and the lookup returned the earlier of the two.
C22_Witness ==
    /\ lkResp # Absent
    /\ Listed
    /\ Cardinality(Matches) >= 2
    /\ FirstMatch > 1
    /\ lkResp.err = Nil
    /\ lkResp.v.v.id = ListedItems[FirstMatch].id

-----------------------------------------------------------------------------
(* Properties of ValidateRegion (SpecRegion).                               *)

LegacyCodes == {"us-east-1", "eu-west-1", "ap-southeast-1"}

\* C23: ValidateRegion succeeds for every code of the region catalog and for
\* the legacy codes us-east-1, eu-west-1 and ap-southeast-1, and fails for
\* every other string.
C23_ValidRegionsAreCatalogAndLegacy ==
    rgResp # Absent =>
        (rgResp.err = Nil <=> rgReq.code \in CatalogCodes \cup LegacyCodes)

\* A legacy code was accepted.
C23_Witness ==
    /\ rgResp # Absent
    /\ rgReq.code = "us-east-1"
    /\ rgReq.code \notin CatalogCodes
    /\ rgResp.err = Nil


-----------------------------------------------------------------------------
(* Properties of quismon_organization_otlp (SpecOtlp).                      *)

MutatingCalls(calls) == SelectSeq(calls, LAMBDA c : c.method # "GET")

\* C24: Create, Update and Delete change the remote configuration only
\* through one PUT on /v1/org/otlp; Delete sends enabled = false with an
\* empty endpoint whatever the prior state, and the remote configuration a
\* successful Delete leaves is the one a second Delete would leave.
C24_SingleSetConfigRequest ==
    [][/\ \A i \in 1..Len(MutatingCalls(otOp'.calls)) :
            /\ MutatingCalls(otOp'.calls)[i].method = "PUT"
            /\ MutatingCalls(otOp'.calls)[i].path = <<"v1", "org", "otlp">>
       /\ Len(MutatingCalls(otOp'.calls)) <= 1
       /\ otRemote' # otRemote =>
            /\ otOp'.name \in {"Create", "Update", "Delete"}
            /\ Len(MutatingCalls(otOp'.calls)) = 1
       /\ otOp'.name = "Delete" =>
            /\ otOp'.calls =
                 <<Call("PUT", <<"v1", "org", "otlp">>,
                        [enabled |-> FALSE, endpoint |-> ""])>>
            /\ otOp'.err = Nil =>
                 /\ ~otRemote'.otlp_enabled
                 /\ otRemote'.otlp_endpoint = Nil
                 /\ ServeOtlp(otOp'.calls[1], otRemote', "standard").remote = otRemote'
      ]_vars

\* A Delete straight after the Create of an enabled configuration with
\* headers has disabled the export and cleared the endpoint.
C24_Witness ==
    /\ otOp.name = "Delete"
    /\ otOp.after = "Create"
    /\ otOp.err = Nil
    /\ otState = Absent
    /\ ~otRemote.otlp_headers.nil
    /\ ~otRemote.otlp_enabled
    /\ otRemote.otlp_endpoint = Nil

\* The data payload of the last response of the operation, when it is the
\* configuration itself.
StandardPayload ==
    /\ otOp.http # Absent
    /\ otOp.http.kind = "response"
    /\ otOp.http.body.valid
    /\ ~otOp.http.body.data.nil
    /\ "otlp_enabled" \in DOMAIN otOp.http.body.data.v

\* C30: after a successful Create, Update or Read the tracked enabled and
\* endpoint equal otlp_enabled and otlp_endpoint of the data payload of the
\* get-config response.
C30_TrackedEqualsGetConfig ==
    (/\ otOp.name \in {"Create", "Update", "Read"}
     /\ otOp.err = Nil
     /\ otOp.diags = <<>>
     /\ otState # Absent
     /\ StandardPayload)
    => /\ otState.enabled = Known(otOp.http.body.data.v.otlp_enabled)
       /\ otState.endpoint = StringOrNull(otOp.http.body.data.v.otlp_endpoint)


-----------------------------------------------------------------------------
(* Properties of the requests and the results of Create and Update of       *)
(* quismon_notification_channel (SpecChannel).                              *)

ChannelComputed == {"id", "org_id", "enabled", "created_at", "updated_at"}

\* C25: when the configuration omits enabled, the create request carries
\* enabled = true.
C25_OmittedEnabledCreatesEnabled ==
    (ncOp.name = "Create" /\ ncOp.plan.enabled = UnknownV)
    => ncOp.calls[1].body.enabled = TRUE

\* C26: after a Create or Update that the handler ends without an error,
\* every computed attribute of the tracked state is known and the host
\* reports no invalid result.
C26_ComputedKnownAfterApply ==
    (ncOp.name \in {"Create", "Update"} /\ ncOp.err = Nil /\ ncState # Absent)
    => /\ ncOp.diags = <<>>
       /\ \A a \in ChannelComputed : IsKnown(ncState[a])

\* C29: the request of an Update or a Delete carries a non-empty id in its
\* path.
C29_RequestAddressedToTrackedId ==
    ncOp.name \in {"Update", "Delete"}
    => \A i \in 1..Len(ncOp.calls) :
          /\ Len(ncOp.calls[i].path) = 3
          /\ ncOp.calls[i].path[3] # ""


-----------------------------------------------------------------------------
(* Properties of the config hash of quismon_check (SpecCheck).              *)

\* The last response of the operation carries a config_hash.
AnsweredConfigHash ==
    /\ chkOp.http # Absent
    /\ chkOp.http.kind = "response"
    /\ chkOp.http.body.valid
    /\ ~chkOp.http.body.data.nil
    /\ "config_hash" \in DOMAIN chkOp.http.body.data.v

\* C27: after a Create or a Read answered with a config_hash, the tracked
\* state carries a config_hash equal to the one of the response.
C27_StateCarriesConfigHash ==
    (/\ chkOp.name \in {"Create", "Read"}
     /\ chkOp.err = Nil
     /\ chkState # Absent
     /\ AnsweredConfigHash)
    => /\ "config_hash" \in DOMAIN chkState
       /\ chkState.config_hash = Known(chkOp.http.body.data.v.config_hash)


-----------------------------------------------------------------------------
(* Properties of concurrent DoRequest calls on one Client (SpecConc).       *)

Building(p) == ccProc[p].pc \in {"do", "read", "done"}

\* C28: no step writes a field of the Client; whatever the interleaving,
\* every request is the one its own call gives with the Client's base URL
\* and Authorization, every result is the one its own response gives, and a
\* step of one operation leaves every other operation as it was.
C28_ConcurrentRequestsIndependent ==
    [][/\ ccClient' = ccClient
       /\ \A p \in DOMAIN ccProc' :
            /\ ccProc'[p].pc \in {"do", "read", "done"} =>
                 ccProc'[p].req = ClientRequest(ccClient, ccProc'[p].call)
            /\ ccProc'[p].pc = "done" =>
                 ccProc'[p].result = DoRequest(ccProc'[p].http)
       /\ \A p \in DOMAIN ccProc', q \in DOMAIN ccProc' :
            (ccProc'[p].pc \in {"do", "read", "done"}
             /\ ccProc'[q].pc \in {"do", "read", "done"}) =>
               /\ ccProc'[p].req.url[1] = ccProc'[q].req.url[1]
               /\ ccProc'[p].req.header["Authorization"]
                    = ccProc'[q].req.header["Authorization"]
       /\ \A p \in DOMAIN ccProc, q \in DOMAIN ccProc :
            (p # q /\ ccProc'[p] # ccProc[p]) => ccProc'[q] = ccProc[q]
      ]_vars

\* Two operations on a Client whose key carries white space have both
\* returned, one a body and the other an error, on different calls.
C28_Witness ==
    /\ ccClient # Absent
    /\ ccClient.APIKey = <<" ", "k", " ">>
    /\ \E p \in DOMAIN ccProc, q \in DOMAIN ccProc :
          /\ p # q
          /\ ccProc[p].pc = "done" /\ ccProc[q].pc = "done"
          /\ ccProc[p].call # ccProc[q].call
          /\ ccProc[p].result.err = Nil
          /\ ccProc[q].result.err # Nil


-----------------------------------------------------------------------------
(* Properties of the order of local steps and requests in Create and Update *)
(* (SpecApply).                                                             *)

\* The inputs on which a local step fails: a config_json that is no JSON
\* object, a list or a map that is unknown or holds a null element.
JsonFails(plan) ==
    /\ ~IsNull(plan.config_json)
    /\ ValueText(plan.config_json) # EmptyText
    /\ JsonUnmarshalMap(ValueText(plan.config_json)).err # "none"
ListFails(l) ==
    ~IsNull(l) /\ (~IsKnown(l) \/ \E i \in 1..Len(l.value) : l.value[i] = "(null)")
MapFails(m) ==
    ~IsNull(m) /\ (~IsKnown(m) \/ \E k \in DOMAIN m.value : ~IsKnown(m.value[k]))
Applied(op) == op.name \in {"Create", "Update"}

\* C21: a Create or Update whose plan makes a local step fail ends with an
\* error, has sent no request, and leaves the remote object and the tracked
\* state as they were; a request that was sent is the only one that mutates
\* and comes first.
C21_LocalFailureSendsNothing ==
    [][/\ (Applied(chkOp') /\ (JsonFails(chkOp'.plan) \/ ListFails(chkOp'.plan.regions)))
            => /\ chkOp'.calls = <<>> /\ chkOp'.diags # <<>>
               /\ chkRemote' = chkRemote /\ chkState' = chkState
       /\ (Applied(arOp') /\ ListFails(arOp'.plan.notification_channel_ids))
            => /\ arOp'.calls = <<>> /\ arOp'.diags # <<>>
               /\ arRemote' = arRemote /\ arState' = arState
       /\ (Applied(otOp') /\ MapFails(otOp'.plan.headers))
            => /\ otOp'.calls = <<>> /\ otOp'.diags # <<>>
               /\ otRemote' = otRemote /\ otState' = otState
       /\ \A op \in {chkOp', arOp', ncOp', otOp'} :
            (Applied(op) /\ op.calls # <<>>)
            => /\ op.calls[1].method \in {"POST", "PUT"}
               /\ Len(MutatingCalls(op.calls)) = 1
      ]_vars

\* An Update of a tracked check whose regions hold a null element ended with
\* a conversion error and sent nothing.
C21_Witness ==
    /\ chkOp.name = "Update"
    /\ chkState # Absent
    /\ chkRemote # Absent
    /\ ListFails(chkOp.plan.regions)
    /\ chkOp.diags = <<"Value Conversion Error">>
    /\ chkOp.calls = <<>>

=============================================================================
